---------------------------- MODULE Spec2Model ----------------------------
(***************************************************************************)
(* A model of the rust-http message parsers, the buffered stream reader,   *)
(* the message writer and the server's per-connection loop.                *)
(*                                                                         *)
(* A byte is a one-character string; a byte string is a sequence of bytes. *)
(* A header map is a function from (lower-cased) names to values.          *)
(* An Option is a sequence of length 0 (None) or 1 (Some).                 *)
(***************************************************************************)
EXTENDS Integers, Sequences, FiniteSets, TLC

(***************************************************************************)
(* Bytes                                                                   *)
(***************************************************************************)
CR == "\r"
LF == "\n"
SP == " "
HTAB == "\t"
FF == "\f"
COLON == ":"
COMMA == ","
SLASH == "/"
PLUS == "+"

CRLF == <<CR, LF>>

\* The bytes the model uses, in ascending byte order (the backquote, a tchar,
\* is left out: the lexer does not take it inside a string).
Ascii ==
  <<
    "\t", "\n", "\f", "\r", " ", "!", "\"", "#", "$", "%", "&", "'",
    "(", ")", "*", "+", ",", "-", ".", "/", "0", "1", "2", "3",
    "4", "5", "6", "7", "8", "9", ":", ";", "<", "=", ">", "?",
    "@", "A", "B", "C", "D", "E", "F", "G", "H", "I", "J", "K",
    "L", "M", "N", "O", "P", "Q", "R", "S", "T", "U", "V", "W",
    "X", "Y", "Z", "[", "\\", "]", "^", "_", "a", "b", "c",
    "d", "e", "f", "g", "h", "i", "j", "k", "l", "m", "n", "o",
    "p", "q", "r", "s", "t", "u", "v", "w", "x", "y", "z", "{",
    "|", "}", "~"
  >>

UpperChars == <<"A", "B", "C", "D", "E", "F", "G", "H", "I", "J", "K", "L", "M", "N", "O", "P", "Q", "R", "S", "T", "U", "V", "W", "X", "Y", "Z">>
LowerChars == <<"a", "b", "c", "d", "e", "f", "g", "h", "i", "j", "k", "l", "m", "n", "o", "p", "q", "r", "s", "t", "u", "v", "w", "x", "y", "z">>
DigitChars == <<"0", "1", "2", "3", "4", "5", "6", "7", "8", "9">>
TCharOther == <<"!", "#", "$", "%", "&", "'", "*", "+", "-", ".", "^", "_", "|", "~">>

Range(s) == {s[i] : i \in DOMAIN s}

ByteCode(b) == CHOOSE i \in DOMAIN Ascii : Ascii[i] = b

SetMin(S) == CHOOSE x \in S : \A y \in S : x <= y

(***************************************************************************)
(* Byte-string helpers (slices, split, trim, case folding, numbers)        *)
(***************************************************************************)
Take(s, n) == SubSeq(s, 1, n)

Drop(s, n) == SubSeq(s, n + 1, Len(s))

\* bytes.windows(2).position(|w| w == CRLF): the 0-based index, -1 for None.
FindCRLF(bytes) ==
  LET hits == {i \in 1..(Len(bytes) - 1) : bytes[i] = CR /\ bytes[i + 1] = LF}
  IN IF hits = {} THEN -1 ELSE SetMin(hits) - 1

\* slice::split(|b| b == sep): every separator ends a part, the empty input
\* gives one empty part.
RECURSIVE Split(_, _)
Split(s, sep) ==
  LET hits == {i \in DOMAIN s : s[i] = sep}
  IN IF hits = {} THEN <<s>>
     ELSE LET i == SetMin(hits)
          IN <<Take(s, i - 1)>> \o Split(Drop(s, i), sep)

\* slice::splitn(2, |b| b == sep)
SplitN2(s, sep) ==
  LET hits == {i \in DOMAIN s : s[i] = sep}
  IN IF hits = {} THEN <<s>>
     ELSE LET i == SetMin(hits)
          IN <<Take(s, i - 1), Drop(s, i)>>

\* u8::is_ascii_whitespace
IsAsciiWhitespace(b) == b \in {SP, HTAB, LF, FF, CR}

RECURSIVE TrimStart(_)
TrimStart(s) ==
  IF s # <<>> /\ IsAsciiWhitespace(s[1]) THEN TrimStart(Tail(s)) ELSE s

RECURSIVE TrimEnd(_)
TrimEnd(s) ==
  IF s # <<>> /\ IsAsciiWhitespace(s[Len(s)])
  THEN TrimEnd(Take(s, Len(s) - 1)) ELSE s

\* trim_ascii as it would be if it trimmed nothing.
TrimAscii_none(s) == s

\* <[u8]>::trim_ascii / str::trim on the model bytes
TrimAscii(s) == TrimEnd(TrimStart(s))

ToLowerByte(b) ==
  IF \E i \in DOMAIN UpperChars : UpperChars[i] = b
  THEN LowerChars[CHOOSE i \in DOMAIN UpperChars : UpperChars[i] = b]
  ELSE b

\* String::to_lowercase on the model bytes
ToLowercase(s) == [i \in DOMAIN s |-> ToLowerByte(s[i])]

\* char::to_digit(radix): -1 for None.
ToDigit(b, radix) ==
  LET l == ToLowerByte(b)
      d == IF \E i \in DOMAIN DigitChars : DigitChars[i] = l
           THEN (CHOOSE i \in DOMAIN DigitChars : DigitChars[i] = l) - 1
           ELSE IF \E i \in 1..6 : LowerChars[i] = l
                THEN 9 + (CHOOSE i \in 1..6 : LowerChars[i] = l)
                ELSE -1
  IN IF d >= 0 /\ d < radix THEN d ELSE -1

RECURSIVE DigitsValue(_, _)
DigitsValue(s, radix) ==
  IF s = <<>> THEN 0
  ELSE DigitsValue(Take(s, Len(s) - 1), radix) * radix + ToDigit(s[Len(s)], radix)

\* The width of usize in the model, and usize::MAX.
UsizeBits == 16

UsizeMax == 2 ^ UsizeBits - 1

\* usize::from_str_radix / str::parse::<usize>: an optional leading '+', then
\* at least one digit of the radix, the value at most usize::MAX. -1 for Err.
ParseUsize(s, radix) ==
  LET digits == IF s # <<>> /\ s[1] = PLUS THEN Tail(s) ELSE s
  IN IF digits = <<>> \/ \E i \in DOMAIN digits : ToDigit(digits[i], radix) < 0
     THEN -1
     ELSE IF DigitsValue(digits, radix) > UsizeMax THEN -1
     ELSE DigitsValue(digits, radix)

\* usize::to_string
RECURSIVE DecString(_)
DecString(n) ==
  IF n < 10 THEN <<DigitChars[n + 1]>>
  ELSE DecString(n \div 10) \o <<DigitChars[(n % 10) + 1]>>

\* Ord on byte strings (lexicographic by byte)
RECURSIVE LexLess(_, _)
LexLess(a, b) ==
  IF b = <<>> THEN FALSE
  ELSE IF a = <<>> THEN TRUE
  ELSE IF a[1] # b[1] THEN ByteCode(a[1]) < ByteCode(b[1])
  ELSE LexLess(Tail(a), Tail(b))

\* keys.sort()
RECURSIVE SortKeys(_)
SortKeys(S) ==
  IF S = {} THEN <<>>
  ELSE LET m == CHOOSE x \in S : \A y \in S \ {x} : LexLess(x, y)
       IN <<m>> \o SortKeys(S \ {m})

RECURSIVE Concat(_)
Concat(ss) == IF ss = <<>> THEN <<>> ELSE Head(ss) \o Concat(Tail(ss))

Some(v) == <<v>>
None == <<>>

(***************************************************************************)
(* Texts                                                                   *)
(***************************************************************************)
Txt_HTTP == <<"H", "T", "T", "P">>
Txt_chunked == <<"c", "h", "u", "n", "k", "e", "d">>
Txt_TransferEncoding == <<"T", "r", "a", "n", "s", "f", "e", "r", "-", "E", "n", "c", "o", "d", "i", "n", "g">>
Txt_ContentLength == <<"C", "o", "n", "t", "e", "n", "t", "-", "L", "e", "n", "g", "t", "h">>
Txt_Connection == <<"C", "o", "n", "n", "e", "c", "t", "i", "o", "n">>
Txt_connection == <<"c", "o", "n", "n", "e", "c", "t", "i", "o", "n">>
Txt_close == <<"c", "l", "o", "s", "e">>
Txt_keep_alive == <<"k", "e", "e", "p", "-", "a", "l", "i", "v", "e">>

Txt_Ok == <<"O", "k">>
Txt_BadRequest == <<"B", "a", "d", " ", "R", "e", "q", "u", "e", "s", "t">>
Txt_NotFound == <<"N", "o", "t", " ", "F", "o", "u", "n", "d">>
Txt_MethodNotAllowed == <<"M", "e", "t", "h", "o", "d", " ", "N", "o", "t", " ", "A", "l", "l", "o", "w", "e", "d">>
Txt_InternalServerError == <<"I", "n", "t", "e", "r", "n", "a", "l", " ", "S", "e", "r", "v", "e", "r", " ", "E", "r", "r", "o", "r">>
Txt_GET == <<"G", "E", "T">>
Txt_HEAD == <<"H", "E", "A", "D">>
Txt_POST == <<"P", "O", "S", "T">>
Txt_PUT == <<"P", "U", "T">>
Txt_DELETE == <<"D", "E", "L", "E", "T", "E">>
Txt_CONNECT == <<"C", "O", "N", "N", "E", "C", "T">>
Txt_OPTIONS == <<"O", "P", "T", "I", "O", "N", "S">>
Txt_TRACE == <<"T", "R", "A", "C", "E">>

(***************************************************************************)
(* Headers (message/headers.rs)                                            *)
(***************************************************************************)
is_valid_token(bytes) ==
  \A i \in DOMAIN bytes :
    bytes[i] \in Range(UpperChars) \cup Range(LowerChars) \cup Range(DigitChars)
                 \cup Range(TCharOther)

\* HTAB, SP, VCHAR (0x21..0x7E); the model has no byte above 0x7F.
is_valid_field_value(bytes) ==
  \A i \in DOMAIN bytes : bytes[i] \notin {LF, FF, CR}

Headers_new == [n \in {} |-> <<>>]

Headers_insert(h, k, value) ==
  [n \in DOMAIN h \cup {k} |-> IF n = k THEN value ELSE h[n]]

Headers_add(h, name, value) ==
  LET k == ToLowercase(name)
  IN IF k \in DOMAIN h
     THEN Headers_insert(h, k, h[k] \o <<COMMA>> \o value)
     ELSE Headers_insert(h, k, value)

\* set as it would be if the name were stored as given.
Headers_set_case_sensitive(h, name, value) == Headers_insert(h, name, value)

Headers_set(h, name, value) == Headers_insert(h, ToLowercase(name), value)

Headers_remove(h, name) ==
  [n \in DOMAIN h \ {ToLowercase(name)} |-> h[n]]

Headers_get(h, name) ==
  LET k == ToLowercase(name)
  IN IF k \in DOMAIN h THEN Some(h[k]) ELSE None

Headers_is_empty(h) == DOMAIN h = {}

\* Headers::add_default
Headers_add_default(h) == Headers_set(h, Txt_connection, Txt_close)

\* Headers::new_with_default, as ResponseBuilder::new calls it: a new map with
\* the defaults of add_default.
Headers_new_with_default == Headers_add_default(Headers_new)

\* One field line without its CRLF: the part of Headers::parse after the
\* line has been cut out.
Headers_parse_line(h, line) ==
  LET parts == SplitN2(line, COLON)
  IN IF Len(parts) # 2 THEN [err |-> "MalformedHeader", headers |-> h]
     ELSE LET name_bytes == parts[1]
              value_bytes == TrimAscii(parts[2])
          IN IF ~is_valid_token(name_bytes) \/ ~is_valid_field_value(value_bytes)
             THEN [err |-> "MalformedHeader", headers |-> h]
             ELSE [err |-> "none", headers |-> Headers_add(h, name_bytes, value_bytes)]

\* Headers::parse (parse_one of the parser objects): n is the bytes consumed.
Headers_parse(h, bytes) ==
  LET end == FindCRLF(bytes)
  IN IF end < 0 THEN [err |-> "none", n |-> 0, headers |-> h]
     ELSE IF end = 0 THEN [err |-> "none", n |-> Len(CRLF), headers |-> h]
     ELSE LET r == Headers_parse_line(h, Take(bytes, end))
          IN [err |-> r.err, n |-> IF r.err = "none" THEN end + Len(CRLF) ELSE 0,
              headers |-> r.headers]

RECURSIVE Headers_write_fields(_, _)
Headers_write_fields(h, keys) ==
  IF keys = <<>> THEN <<>>
  ELSE Head(keys) \o <<COLON, SP>> \o h[Head(keys)] \o CRLF
       \o Headers_write_fields(h, Tail(keys))

\* Headers::write_to: the bytes written.
Headers_write_to(h) ==
  IF Headers_is_empty(h) THEN <<>>
  ELSE Headers_write_fields(h, SortKeys(DOMAIN h)) \o CRLF

(***************************************************************************)
(* Start lines (version.rs, method.rs, status_line.rs, request_line.rs)    *)
(***************************************************************************)
\* HttpVersion::from_bytes: an Option of <<major, minor>>.
HttpVersion_from_bytes(bytes) ==
  IF bytes = <<"1", ".", "0">> THEN Some(<<1, 0>>)
  ELSE IF bytes = <<"1", ".", "1">> THEN Some(<<1, 1>>)
  ELSE IF bytes = <<"2", ".", "0">> THEN Some(<<2, 0>>)
  ELSE IF bytes = <<"3", ".", "0">> THEN Some(<<3, 0>>)
  ELSE None

\* Display for HttpVersion
HttpVersion_fmt(v) == DecString(v[1]) \o <<".">> \o DecString(v[2])

StatusCodes ==
  << [code |-> "Ok", digits |-> <<"2", "0", "0">>, reason |-> Txt_Ok],
     [code |-> "BadRequest", digits |-> <<"4", "0", "0">>, reason |-> Txt_BadRequest],
     [code |-> "NotFound", digits |-> <<"4", "0", "4">>, reason |-> Txt_NotFound],
     [code |-> "MethodNotAllowed", digits |-> <<"4", "0", "5">>, reason |-> Txt_MethodNotAllowed],
     [code |-> "InternalServerError", digits |-> <<"5", "0", "0">>, reason |-> Txt_InternalServerError] >>

StatusCode_entry(code) ==
  StatusCodes[CHOOSE i \in DOMAIN StatusCodes : StatusCodes[i].code = code]

StatusCode_to_code(code) == StatusCode_entry(code).digits

StatusCode_to_reason(code) == StatusCode_entry(code).reason

\* StatusCode::parse: an Option of the code.
StatusCode_parse(bytes) ==
  IF \E i \in DOMAIN StatusCodes : StatusCodes[i].digits = bytes
  THEN Some(StatusCodes[CHOOSE i \in DOMAIN StatusCodes : StatusCodes[i].digits = bytes].code)
  ELSE None

StatusLine_new(status_code) == [version |-> <<1, 1>>, status_code |-> status_code]

\* StatusLine::write_to: the bytes written.
StatusLine_write_to(sl) ==
  Txt_HTTP \o <<SLASH>> \o HttpVersion_fmt(sl.version) \o <<SP>>
  \o StatusCode_to_code(sl.status_code) \o <<SP>>
  \o StatusCode_to_reason(sl.status_code) \o CRLF

StatusLine_from_line(line) ==
  LET parts == Split(line, SP)
      bad(e) == [err |-> e, line |-> StatusLine_new("Ok")]
  IN IF Len(parts) # 3 /\ Len(parts) # 2 THEN bad("MalformedStatusLine")
     ELSE LET version_parts == Split(parts[1], SLASH)
          IN IF Len(version_parts) # 2 \/ version_parts[1] # Txt_HTTP
             THEN bad("MalformedStatusLine")
             ELSE LET version == HttpVersion_from_bytes(version_parts[2])
                      status_code == StatusCode_parse(parts[2])
                  IN IF version = None THEN bad("InvalidHTTPVersion")
                     ELSE IF status_code = None THEN bad("InvalidStatusCode")
                     ELSE [err |-> "none",
                           line |-> [version |-> version[1],
                                     status_code |-> status_code[1]]]

\* StatusLine::parse of the parser object: no CRLF => None (some = FALSE), else
\* the line before the CRLF is parsed and size is the bytes consumed.
StatusLine_parse(bytes) ==
  LET end == FindCRLF(bytes)
  IN IF end < 0
     THEN [err |-> "none", some |-> FALSE, line |-> StatusLine_new("Ok"), size |-> 0]
     ELSE LET r == StatusLine_from_line(Take(bytes, end))
          IN [err |-> r.err, some |-> r.err = "none", line |-> r.line,
              size |-> end + Len(CRLF)]

Methods ==
  << [method |-> "Get", text |-> Txt_GET], [method |-> "Head", text |-> Txt_HEAD],
     [method |-> "Post", text |-> Txt_POST], [method |-> "Put", text |-> Txt_PUT],
     [method |-> "Delete", text |-> Txt_DELETE],
     [method |-> "Connect", text |-> Txt_CONNECT],
     [method |-> "Options", text |-> Txt_OPTIONS],
     [method |-> "Trace", text |-> Txt_TRACE] >>

\* Method::parse: an Option of the method.
Method_parse(bytes) ==
  IF \E i \in DOMAIN Methods : Methods[i].text = bytes
  THEN Some(Methods[CHOOSE i \in DOMAIN Methods : Methods[i].text = bytes].method)
  ELSE None

Method_to_str(method) ==
  Methods[CHOOSE i \in DOMAIN Methods : Methods[i].method = method].text

\* RequestLine::default
RequestLine_default == [method |-> "Get", url |-> <<>>, version |-> <<"1", ".", "1">>]

\* RequestLine::parse of the parser object; the version is kept as text.
RequestLine_parse(bytes) ==
  LET end == FindCRLF(bytes)
      bad(e) == [err |-> e, some |-> FALSE, line |-> RequestLine_default, size |-> 0]
  IN IF end < 0 THEN bad("none")
     ELSE LET parts == Split(Take(bytes, end), SP)
          IN IF Len(parts) # 3 THEN bad("MalformedRequestLine")
             ELSE LET method == Method_parse(parts[1])
                      version_parts == Split(parts[3], SLASH)
                  IN IF method = None THEN bad("InvalidMehtod")
                     ELSE IF Len(version_parts) # 2 \/ version_parts[1] # Txt_HTTP
                     THEN bad("MalformedRequestLine")
                     ELSE [err |-> "none", some |-> TRUE,
                           line |-> [method |-> method[1], url |-> parts[2],
                                     version |-> version_parts[2]],
                           size |-> end + Len(CRLF)]

\* RequestLine::write_to: the bytes written.
RequestLine_write_to(rl) ==
  Method_to_str(rl.method) \o <<SP>> \o rl.url \o <<SP>> \o Txt_HTTP \o <<SLASH>>
  \o rl.version \o CRLF

(***************************************************************************)
(* Body framing of the parser objects (message/body.rs, message/request.rs)*)
(*                                                                         *)
(* encoding: None, Some([t |-> "Nothing", n |-> size]) or                  *)
(*           Some([t |-> "Chunked", n |-> 0]).                             *)
(* chunked_state: [t |-> "Size", size |-> 0] or [t |-> "Data", size |-> k].*)
(***************************************************************************)
Nothing(n) == [t |-> "Nothing", n |-> n]
Chunked == [t |-> "Chunked", n |-> 0]
ChunkSize == [t |-> "Size", size |-> 0]
ChunkData(k) == [t |-> "Data", size |-> k]

\* BodyParser::new
BodyParser_new == [encoding |-> None, chunked_state |-> ChunkSize, size_parsed |-> 0]

\* set_encoding as it would be if Transfer-Encoding were matched without
\* regard to letter case and took precedence over Content-Length.
BodyParser_set_encoding_lenient(encoding, headers) ==
  IF encoding # None THEN [err |-> "none", encoding |-> encoding]
  ELSE IF Headers_get(headers, Txt_TransferEncoding) # None
  THEN IF ToLowercase(Headers_get(headers, Txt_TransferEncoding)[1]) = Txt_chunked
       THEN [err |-> "none", encoding |-> Some(Chunked)]
       ELSE [err |-> "InvalidHeaderFields", encoding |-> encoding]
  ELSE IF Headers_get(headers, Txt_ContentLength) # None
          /\ ParseUsize(Headers_get(headers, Txt_ContentLength)[1], 10) >= 0
  THEN [err |-> "none",
        encoding |-> Some(Nothing(ParseUsize(Headers_get(headers, Txt_ContentLength)[1], 10)))]
  ELSE [err |-> "none", encoding |-> Some(Nothing(0))]

\* BodyParser::set_encoding: the error and the encoding afterwards.
BodyParser_set_encoding(encoding, headers) ==
  LET transmission == Headers_get(headers, Txt_TransferEncoding)
      content == Headers_get(headers, Txt_ContentLength)
  IN IF encoding # None THEN [err |-> "none", encoding |-> encoding]
     ELSE IF transmission # None /\ content # None
     THEN [err |-> "InvalidHeaderFields", encoding |-> encoding]
     ELSE IF transmission # None
     THEN IF transmission[1] = Txt_chunked
          THEN [err |-> "none", encoding |-> Some(Chunked)]
          ELSE [err |-> "InvalidHeaderFields", encoding |-> encoding]
     ELSE IF content # None
     THEN LET length == content[1]
              cl == ParseUsize(length, 10)
              split == Split(length, COMMA)
              values == [i \in DOMAIN split |-> TrimAscii(split[i])]
              first == values[1]
          IN IF cl >= 0 THEN [err |-> "none", encoding |-> Some(Nothing(cl))]
             ELSE IF \E i \in 2..Len(values) : values[i] # first
             THEN [err |-> "InvalidHeaderFields", encoding |-> encoding]
             ELSE IF ParseUsize(first, 10) < 0
             THEN [err |-> "InvalidContentLength", encoding |-> encoding]
             ELSE [err |-> "none", encoding |-> Some(Nothing(ParseUsize(first, 10)))]
     ELSE [err |-> "none", encoding |-> Some(Nothing(0))]

\* The result of one body-parsing call: the error ("none", an error name, or
\* "panic"), the bytes consumed, done, and the parser's and message's fields.
BodyResult(err, n, done, bp, body, headers) ==
  [err |-> err, n |-> n, done |-> done, bp |-> bp, body |-> body, headers |-> headers]

\* BodyParser::parse_chunked_body. In Data(size), size - size_parsed is a usize
\* subtraction: with size_parsed > size it panics when overflow is checked,
\* and otherwise wraps, so that (size_parsed being at most size + 1)
\* size - size_parsed + 1 is 0 and bytes[usize::MAX] is indexed, which panics.
\* With size - size_parsed = usize::MAX the addition of 1 panics when overflow
\* is checked, and otherwise wraps to 0, so that bytes[usize::MAX] is indexed
\* (the slice holds a CRLF and is not empty), which panics.
BodyParser_parse_chunked_body(bp, body, headers, bytes) ==
  LET end_of_line == FindCRLF(bytes)
  IN IF end_of_line < 0 THEN BodyResult("none", 0, FALSE, bp, body, headers)
     ELSE IF bp.chunked_state.t = "Size"
     THEN LET size == ParseUsize(Take(bytes, end_of_line), 16)
          IN IF size < 0
             THEN BodyResult("MalformedChunkedSize", 0, FALSE, bp, body, headers)
             ELSE LET bp2 == [bp EXCEPT !.chunked_state = ChunkData(size),
                                        !.size_parsed = 0]
                  IN IF size = 0
                     THEN BodyResult("none", end_of_line + Len(CRLF), TRUE, bp2, body,
                            Headers_remove(
                              Headers_set(headers, Txt_ContentLength, DecString(Len(body))),
                              Txt_TransferEncoding))
                     ELSE BodyResult("none", end_of_line + Len(CRLF), FALSE, bp2, body,
                                     headers)
     ELSE LET size == bp.chunked_state.size
          IN IF bp.size_parsed > size \/ size - bp.size_parsed + 1 > UsizeMax
             THEN BodyResult("panic", 0, FALSE, bp, body, headers)
             ELSE LET left == size - bp.size_parsed
                      found_end == /\ Len(bytes) > left + 1
                                   /\ bytes[left + 1] = CR
                                   /\ bytes[left + 2] = LF
                  IN IF ~found_end /\ Len(bytes) > left + 1
                     THEN BodyResult("MalformedChunkedBody", 0, FALSE, bp, body, headers)
                     ELSE LET end == IF found_end THEN left ELSE Len(bytes)
                              bp2 == [bp EXCEPT
                                        !.size_parsed = bp.size_parsed + end,
                                        !.chunked_state =
                                           IF found_end THEN ChunkSize ELSE @]
                          IN BodyResult("none",
                                        IF found_end THEN end + Len(CRLF) ELSE end,
                                        FALSE, bp2, body \o Take(bytes, end), headers)

\* BodyParser::parse_body
BodyParser_parse_body(bp, body, headers, bytes) ==
  LET e == BodyParser_set_encoding(bp.encoding, headers)
      bp1 == [bp EXCEPT !.encoding = e.encoding]
  IN IF e.err # "none" THEN BodyResult(e.err, 0, FALSE, bp, body, headers)
     ELSE IF bp1.encoding[1].t = "Chunked"
     THEN BodyParser_parse_chunked_body(bp1, body, headers, bytes)
     ELSE LET len == bp1.encoding[1].n
              remaining == IF len > Len(body) THEN len - Len(body) ELSE 0
              to_take == IF remaining < Len(bytes) THEN remaining ELSE Len(bytes)
          IN IF len = 0 \/ remaining = 0
             THEN BodyResult("none", 0, TRUE, bp1, body, headers)
             ELSE BodyResult("none", to_take, Len(body) + to_take = len, bp1,
                             body \o Take(bytes, to_take), headers)

\* RequestParser::set_encoding: the same resolution, on the parser's own fields.
RequestParser_set_encoding(encoding, headers) ==
  BodyParser_set_encoding(encoding, headers)

\* RequestParser::parse_chunked_body; done stands for state = Done.  In
\* Data(size) with size + 2 above usize::MAX the addition panics when overflow
\* is checked, and otherwise wraps to 0 or 1, less than the length of a slice
\* that holds a CRLF, so that bytes[size] is indexed, which panics.
RequestParser_parse_chunked_body(bp, body, headers, bytes) ==
  LET end_of_line == FindCRLF(bytes)
  IN IF end_of_line < 0 THEN BodyResult("none", 0, FALSE, bp, body, headers)
     ELSE IF bp.chunked_state.t = "Size"
     THEN LET size == ParseUsize(Take(bytes, end_of_line), 16)
          IN IF size < 0
             THEN BodyResult("MalformedChunkedBody", 0, FALSE, bp, body, headers)
             ELSE LET bp2 == [bp EXCEPT !.chunked_state = ChunkData(size)]
                  IN IF size = 0
                     THEN BodyResult("none", end_of_line + Len(CRLF), TRUE, bp2, body,
                            Headers_remove(
                              Headers_set(headers, Txt_ContentLength, DecString(Len(body))),
                              Txt_TransferEncoding))
                     ELSE BodyResult("none", end_of_line + Len(CRLF), FALSE, bp2, body,
                                     headers)
     ELSE LET size == bp.chunked_state.size
          IN IF size + 2 > UsizeMax
             THEN BodyResult("panic", 0, FALSE, bp, body, headers)
             ELSE IF size + 2 >= Len(bytes)
             THEN BodyResult("none", 0, FALSE, bp, body, headers)
             ELSE IF bytes[size + 1] # CR \/ bytes[size + 2] # LF
             THEN BodyResult("MalformedChunkedBody", 0, FALSE, bp, body, headers)
             ELSE BodyResult("none", size + Len(CRLF), FALSE,
                             [bp EXCEPT !.chunked_state = ChunkSize],
                             body \o Take(bytes, size), headers)

\* RequestParser::parse_body; done stands for state = Done.
RequestParser_parse_body(bp, body, headers, bytes) ==
  LET e == RequestParser_set_encoding(bp.encoding, headers)
      bp1 == [bp EXCEPT !.encoding = e.encoding]
  IN IF e.err # "none" THEN BodyResult(e.err, 0, FALSE, bp, body, headers)
     ELSE IF bp1.encoding[1].t = "Chunked"
     THEN RequestParser_parse_chunked_body(bp1, body, headers, bytes)
     ELSE LET len == bp1.encoding[1].n
          IN IF len = 0 THEN BodyResult("none", 0, TRUE, bp1, body, headers)
             ELSE IF Len(body) + Len(bytes) > len
             THEN BodyResult("BodyTooLong", 0, FALSE, bp1, body, headers)
             ELSE BodyResult("none", Len(bytes), Len(body) + Len(bytes) = len, bp1,
                             body \o bytes, headers)

(***************************************************************************)
(* The parser objects (RequestParser in message/request.rs, ResponseParser *)
(* in message/response.rs).  A parser is                                   *)
(*   [state, line, headers, body, bp]                                      *)
(* with state in StartLine, Headers, Body, Done and bp the body-framing    *)
(* fields (encoding, chunked_state, size_parsed).                          *)
(***************************************************************************)
ParseResult(err, n, ps) == [err |-> err, n |-> n, ps |-> ps]

\* The parser request_from_reader starts with.
RequestParser_new ==
  [state |-> "StartLine", line |-> RequestLine_default, headers |-> Headers_new,
   body |-> <<>>, bp |-> BodyParser_new]

\* The parser response_from_reader starts with.
ResponseParser_new ==
  [state |-> "StartLine", line |-> StatusLine_new("Ok"), headers |-> Headers_new,
   body |-> <<>>, bp |-> BodyParser_new]

\* RequestParser::parse, from the loop's state with `read` bytes consumed.
RECURSIVE RequestParser_parse_from(_, _, _)
RequestParser_parse_from(ps, bytes, read) ==
  IF ps.state = "Done" THEN ParseResult("none", read, ps)
  ELSE IF ps.state = "StartLine"
  THEN IF read # 0 THEN ParseResult("panic", read, ps)
       ELSE LET Line(rl) ==
                  IF rl.err # "none" THEN ParseResult(rl.err, read, ps)
                  ELSE IF ~rl.some THEN ParseResult("none", read, ps)
                  ELSE RequestParser_parse_from(
                         [ps EXCEPT !.state = "Headers", !.line = rl.line],
                         bytes, read + rl.size)
            IN Line(RequestLine_parse(bytes))
  ELSE IF ps.state = "Headers"
  THEN LET Field(h) ==
             IF h.err # "none" THEN ParseResult(h.err, read, ps)
             ELSE IF h.n = 0 THEN ParseResult("none", read, ps)
             ELSE RequestParser_parse_from(
                    [ps EXCEPT !.headers = h.headers,
                               !.state = IF h.n = 2 THEN "Body" ELSE "Headers"],
                    bytes, read + h.n)
       IN Field(Headers_parse(ps.headers, Drop(bytes, read)))
  ELSE LET Body(b) ==
             IF b.err # "none" THEN ParseResult(b.err, read, ps)
             ELSE IF b.n = 0
             THEN ParseResult("none", read,
                    [ps EXCEPT !.bp = b.bp, !.body = b.body, !.headers = b.headers,
                               !.state = IF b.done THEN "Done" ELSE "Body"])
             ELSE RequestParser_parse_from(
                    [ps EXCEPT !.bp = b.bp, !.body = b.body, !.headers = b.headers,
                               !.state = IF b.done THEN "Done" ELSE "Body"],
                    bytes, read + b.n)
       IN Body(RequestParser_parse_body(ps.bp, ps.body, ps.headers, Drop(bytes, read)))

\* parse as it would be if read were not 0 when the loop starts.
RequestParser_parse_read_kept(ps, bytes) == RequestParser_parse_from(ps, bytes, 1)

RequestParser_parse(ps, bytes) == RequestParser_parse_from(ps, bytes, 0)

\* ResponseParser::parse, from the loop's state with `read` bytes consumed.
RECURSIVE ResponseParser_parse_from(_, _, _)
ResponseParser_parse_from(ps, bytes, read) ==
  IF ps.state = "Done" THEN ParseResult("none", read, ps)
  ELSE IF ps.state = "StartLine"
  THEN IF read # 0 THEN ParseResult("panic", read, ps)
       ELSE LET Line(sl) ==
                  IF sl.err # "none" THEN ParseResult(sl.err, read, ps)
                  ELSE IF ~sl.some THEN ParseResult("none", read, ps)
                  ELSE ResponseParser_parse_from(
                         [ps EXCEPT !.state = "Headers", !.line = sl.line],
                         bytes, read + sl.size)
            IN Line(StatusLine_parse(bytes))
  ELSE IF ps.state = "Headers"
  THEN LET Field(h) ==
             IF h.err # "none" THEN ParseResult(h.err, read, ps)
             ELSE IF h.n = 0 THEN ParseResult("none", read, ps)
             ELSE ResponseParser_parse_from(
                    [ps EXCEPT !.headers = h.headers,
                               !.state = IF h.n = 2 THEN "Body" ELSE "Headers"],
                    bytes, read + h.n)
       IN Field(Headers_parse(ps.headers, Drop(bytes, read)))
  ELSE LET Body(b) ==
             IF b.err # "none" THEN ParseResult(b.err, read, ps)
             ELSE IF b.n = 0
             THEN ParseResult("none", read,
                    [ps EXCEPT !.bp = b.bp, !.body = b.body, !.headers = b.headers,
                               !.state = IF b.done THEN "Done" ELSE "Body"])
             ELSE ResponseParser_parse_from(
                    [ps EXCEPT !.bp = b.bp, !.body = b.body, !.headers = b.headers,
                               !.state = IF b.done THEN "Done" ELSE "Body"],
                    bytes, read + b.n)
       IN Body(BodyParser_parse_body(ps.bp, ps.body, ps.headers, Drop(bytes, read)))

ResponseParser_parse(ps, bytes) == ResponseParser_parse_from(ps, bytes, 0)

(***************************************************************************)
(* Messages on the wire                                                    *)
(***************************************************************************)
\* Bounds of the parser-object model.
MaxBody == 2

BodyBytes == {"A", CR, LF}

Bodies == UNION {[1..k -> BodyBytes] : k \in 0..MaxBody}

\* The ways to cut n bytes into chunks of positive sizes.
RECURSIVE Compositions(_)
Compositions(n) ==
  IF n = 0 THEN {<<>>}
  ELSE UNION {{<<k>> \o c : c \in Compositions(n - k)} : k \in 1..n}

HexChars == <<"0", "1", "2", "3", "4", "5", "6", "7", "8", "9", "a", "b", "c", "d", "e", "f">>

RECURSIVE HexString(_)
HexString(n) ==
  IF n < 16 THEN <<HexChars[n + 1]>>
  ELSE HexString(n \div 16) \o <<HexChars[(n % 16) + 1]>>

\* The chunked coding of body cut into chunks: hex-size CRLF payload CRLF per
\* chunk, then 0 CRLF CRLF.
RECURSIVE EncodeChunks(_, _)
EncodeChunks(body, chunks) ==
  IF chunks = <<>> THEN <<"0">> \o CRLF \o CRLF
  ELSE HexString(Head(chunks)) \o CRLF \o Take(body, Head(chunks)) \o CRLF
       \o EncodeChunks(Drop(body, Head(chunks)), Tail(chunks))

\* The well-formed messages the parsers are fed: a request or a response with
\* no body, a Content-Length body or a chunked body.
Messages ==
  {[kind |-> k, framing |-> "none", body |-> <<>>, chunks |-> <<>>] :
      k \in {"request", "response"}}
  \cup {[kind |-> k, framing |-> "length", body |-> b, chunks |-> <<>>] :
      k \in {"request", "response"}, b \in Bodies}
  \cup UNION {{[kind |-> k, framing |-> "chunked", body |-> b, chunks |-> c] :
                 k \in {"request", "response"}, c \in Compositions(Len(b))} :
              b \in Bodies}

MessageLine(m) ==
  IF m.kind = "request"
  THEN [method |-> "Get", url |-> <<SLASH>>, version |-> <<"1", ".", "1">>]
  ELSE StatusLine_new("Ok")

\* serialize(M): start line, field lines, the empty line, the payload.
Encode(m) ==
  (IF m.kind = "request" THEN RequestLine_write_to(MessageLine(m))
   ELSE StatusLine_write_to(MessageLine(m)))
  \o (IF m.framing = "length"
      THEN Txt_ContentLength \o <<COLON, SP>> \o DecString(Len(m.body)) \o CRLF
      ELSE IF m.framing = "chunked"
      THEN Txt_TransferEncoding \o <<COLON, SP>> \o Txt_chunked \o CRLF
      ELSE <<>>)
  \o CRLF
  \o (IF m.framing = "chunked" THEN EncodeChunks(m.body, m.chunks) ELSE m.body)

\* The headers of M once parsed: the chunked path leaves Content-Length.
MessageHeaders(m) ==
  IF m.framing = "none" THEN Headers_new
  ELSE Headers_set(Headers_new, Txt_ContentLength, DecString(Len(m.body)))

(***************************************************************************)
(* request_from_reader / response_from_reader over a fragmenting reader    *)
(***************************************************************************)
VARIABLES
  p_msg,      \* the message whose serialization the peer sends
  p_wire,     \* serialize(p_msg)
  p_pos,      \* how many of its bytes the reader has delivered
  p_buf,      \* buf[..read]: the bytes read and not yet consumed
  p_ps,       \* the parser
  p_result,   \* "running", "ok" (Ok(message)) or the error returned / "panic"
  p_eof       \* the reader has returned 0 bytes

parserVars == <<p_msg, p_wire, p_pos, p_buf, p_ps, p_result, p_eof>>

\* handle_connection over a Connection<Request> (see the server section).
VARIABLES
  s_handler,  \* the handler the server was given
  s_wire,     \* the bytes the peer sends on the connection
  s_pos,      \* how many of them the transport has delivered
  sr_buf,     \* StreamReader: buf[..read]
  s_pc,       \* where handle_connection / Connection::read is
  s_call,     \* the StreamReader call in progress (its locals)
  s_req,      \* the request being read, then handled
  s_resp,     \* the response the handler returned
  s_err,      \* the error of the failed read / handler / write, "none" if none
  s_log       \* what happened on the connection, in order

serverVars ==
  <<s_handler, s_wire, s_pos, sr_buf, s_pc, s_call, s_req, s_resp, s_err, s_log>>

\* BodyParser::parse_body applied to bounded headers (see the framing section).
VARIABLES
  f_headers,  \* the header map handed to parse_body
  f_bytes,    \* the bytes handed to parse_body
  f_body,     \* the body buffer
  f_bp,       \* the BodyParser
  f_result    \* "unset" or Ok / the error of the call

framingVars == <<f_headers, f_bytes, f_body, f_bp, f_result>>

\* should_close applied to bounded requests and responses.
VARIABLES
  k_req,      \* the request
  k_resp,     \* the response
  k_result    \* None, or Some of the boolean returned

policyVars == <<k_req, k_resp, k_result>>

\* listen_and_serve and the tasks it spawns (see the listener section).
VARIABLES
  l_state,    \* listen_and_serve: "accepting", or "returned" (with Err)
  l_conn      \* per inbound stream: the peer's side and the task serving it

listenerVars == <<l_state, l_conn>>

\* A StreamReader under arbitrary read_line / read_n calls (see the reader
\* section).
VARIABLES
  r_src,      \* the bytes of the source
  r_pos,      \* how many of them the source has delivered
  r_buf,      \* StreamReader: buf[..read]
  r_call,     \* the call in progress (its locals)
  r_ret,      \* what the calls returned, in order
  r_err       \* "none", or the error a call returned

readerVars == <<r_src, r_pos, r_buf, r_call, r_ret, r_err>>

\* A header map under add / set / remove / parse calls (see the header map
\* section).
VARIABLES
  h_map,      \* the Headers
  h_ref,      \* a reference: the list of (name, value) pairs
  h_hist,     \* the calls made so far: how many, of which kinds
  h_last,     \* the last call and what it returned
  h_out       \* None, or Some of the map parsed back from write_to

headerVars == <<h_map, h_ref, h_hist, h_last, h_out>>

\* Response::write_to on bounded responses (see the serialization section).
VARIABLES
  w_resp,     \* the response
  w_out       \* None, or Some of the bytes written

writeVars == <<w_resp, w_out>>

\* The start-line codecs on bounded lines (see the start-line section).
VARIABLES
  t_kind,     \* "status" or "request": which codec reads the line
  t_in,       \* the line, without its CRLF
  t_out       \* None, or Some of what the codec returned

startVars == <<t_kind, t_in, t_out>>

\* The worker pool (see the worker-pool section).
VARIABLES
  q_workers,  \* per worker thread: [pc, job]
  q_sender,   \* the pool still holds its Sender
  q_queue,    \* the jobs sent on the channel and not yet received
  q_lock,     \* 0, or the worker that holds the receiver's mutex
  q_next,     \* how many jobs execute has sent
  q_runs,     \* the calls job(), in order: [worker, job]
  q_drop,     \* "live", "joining" (drop is joining), "dropped", "panicked"
  q_join,     \* the worker drop is joining
  q_pending   \* the jobs that were queued or running when drop began

poolVars ==
  <<q_workers, q_sender, q_queue, q_lock, q_next, q_runs, q_drop, q_join, q_pending>>

vars == <<parserVars, serverVars, framingVars, policyVars, listenerVars, readerVars, headerVars, writeVars, startVars, poolVars>>

\* What each machine leaves alone.
otherThanParser == <<serverVars, framingVars, policyVars, listenerVars, readerVars, headerVars, writeVars, startVars, poolVars>>
otherThanServer == <<parserVars, framingVars, policyVars, listenerVars, readerVars, headerVars, writeVars, startVars, poolVars>>
otherThanFraming == <<parserVars, serverVars, policyVars, listenerVars, readerVars, headerVars, writeVars, startVars, poolVars>>
otherThanPolicy == <<parserVars, serverVars, framingVars, listenerVars, readerVars, headerVars, writeVars, startVars, poolVars>>

\* The machines that are not running stay as they are.
ParserOff ==
  /\ p_msg = [kind |-> "request", framing |-> "none", body |-> <<>>, chunks |-> <<>>]
  /\ p_wire = <<>> /\ p_pos = 0 /\ p_buf = <<>> /\ p_ps = RequestParser_new
  /\ p_result = "off" /\ p_eof = FALSE

ServerOff ==
  /\ s_handler = "off" /\ s_wire = <<>> /\ s_pos = 0 /\ sr_buf = <<>>
  /\ s_pc = "Off" /\ s_call = [op |-> "none"] /\ s_req = <<>> /\ s_resp = <<>>
  /\ s_err = "none" /\ s_log = <<>>

FramingOff ==
  /\ f_headers = Headers_new /\ f_bytes = <<>> /\ f_body = <<>>
  /\ f_bp = BodyParser_new /\ f_result = "off"

PolicyOff == k_req = <<>> /\ k_resp = <<>> /\ k_result = <<>>

otherThanListener == <<parserVars, serverVars, framingVars, policyVars, readerVars, headerVars, writeVars, startVars, poolVars>>

ListenerOff == l_state = "off" /\ l_conn = <<>>

otherThanReader == <<parserVars, serverVars, framingVars, policyVars, listenerVars, headerVars, writeVars, startVars, poolVars>>

ReaderOff ==
  /\ r_src = <<>> /\ r_pos = 0 /\ r_buf = <<>> /\ r_call = [op |-> "off"]
  /\ r_ret = <<>> /\ r_err = "none"

otherThanHeader == <<parserVars, serverVars, framingVars, policyVars, listenerVars, readerVars, writeVars, startVars, poolVars>>

HeadersOff ==
  /\ h_map = Headers_new /\ h_ref = <<>> /\ h_hist = <<>>
  /\ h_last = [kind |-> "off"] /\ h_out = <<>>

otherThanWrite == <<parserVars, serverVars, framingVars, policyVars, listenerVars, readerVars, headerVars, startVars, poolVars>>

WriteOff == w_resp = <<>> /\ w_out = <<>>

otherThanStart == <<parserVars, serverVars, framingVars, policyVars, listenerVars, readerVars, headerVars, writeVars, poolVars>>

StartOff == t_kind = "off" /\ t_in = <<>> /\ t_out = <<>>

otherThanPool == <<parserVars, serverVars, framingVars, policyVars, listenerVars, readerVars, headerVars, writeVars, startVars>>

PoolOff ==
  /\ q_workers = <<>> /\ q_sender = FALSE /\ q_queue = <<>> /\ q_lock = 0
  /\ q_next = 0 /\ q_runs = <<>> /\ q_drop = "off" /\ q_join = 0 /\ q_pending = {}

\* let mut buf = [0u8; 1024]
ParserBufSize == 1024

\* The longest fragment short of "all the rest" that one read delivers.
MaxFragment == 3

Min(a, b) == IF a < b THEN a ELSE b

Parser_parse(kind, ps, bytes) ==
  IF kind = "request" THEN RequestParser_parse(ps, bytes)
  ELSE ResponseParser_parse(ps, bytes)

ParserInit ==
  /\ p_msg \in Messages
  /\ p_wire = Encode(p_msg)
  /\ p_pos = 0
  /\ p_buf = <<>>
  /\ p_ps = IF p_msg.kind = "request" THEN RequestParser_new ELSE ResponseParser_new
  /\ p_result = "running"
  /\ p_eof = FALSE
  /\ ServerOff /\ FramingOff /\ PolicyOff /\ ListenerOff /\ ReaderOff /\ HeadersOff /\ WriteOff /\ StartOff /\ PoolOff

\* The sizes of the fragment one read may deliver when cap bytes are both
\* left in the source and free in the buffer.
FragmentSizes(cap) == (1..Min(MaxFragment, cap)) \cup (IF cap > 0 THEN {cap} ELSE {})

\* One turn of the from_reader loop in which the reader delivers n > 0 bytes.
ParserRead ==
  /\ p_result = "running"
  /\ \E n \in FragmentSizes(Min(Len(p_wire) - p_pos, ParserBufSize - Len(p_buf))) :
       LET Parsed(bytes, r) ==
             /\ p_pos' = p_pos + n
             /\ IF r.err # "none"
                THEN /\ p_result' = r.err
                     /\ UNCHANGED <<p_buf, p_ps>>
                ELSE /\ p_ps' = r.ps
                     /\ p_buf' = Drop(bytes, r.n)
                     /\ p_result' = IF r.ps.state = "Done" THEN "ok" ELSE "running"
       IN Parsed(p_buf \o SubSeq(p_wire, p_pos + 1, p_pos + n),
                 Parser_parse(p_msg.kind, p_ps,
                              p_buf \o SubSeq(p_wire, p_pos + 1, p_pos + n)))
  /\ UNCHANGED <<p_msg, p_wire, p_eof, otherThanParser>>

\* One turn in which the reader returns 0 bytes: the peer has stopped sending
\* (wherever it was in the message) or the buffer is full.
ParserEof ==
  /\ p_result = "running"
  /\ p_result' = IF p_msg.kind = "request" THEN "MalformedRequest"
                 ELSE "MalformedResponse"
  /\ p_eof' = TRUE
  /\ UNCHANGED <<p_msg, p_wire, p_pos, p_buf, p_ps, otherThanParser>>

ParserNext == ParserRead \/ ParserEof

SpecParser == ParserInit /\ [][ParserNext]_vars

\* The parser has returned without the reader having run dry.
ParserReturned == p_result # "running" /\ ~p_eof

\* The message the parser holds is M.
ParsedIsMessage ==
  /\ p_ps.line = MessageLine(p_msg)
  /\ p_ps.headers = MessageHeaders(p_msg)
  /\ p_ps.body = p_msg.body

\* C1: fragmentation independence.  Whatever the partition of serialize(M)
\* into fragments, once every byte is delivered (or the parser has returned
\* before that) the parser has produced M: start line, headers and body.
C1_FragmentationIndependence ==
  (p_pos = Len(p_wire) \/ ParserReturned) => (p_result = "ok" /\ ParsedIsMessage)

\* C2: chunked equivalence.  Decoding a chunked body B never fails, a Data(k)
\* step never appends more than the k payload bytes, and the decoded message
\* has body B, Content-Length |B| and no Transfer-Encoding.
C2_ChunkedEquivalence ==
  p_msg.framing = "chunked" =>
    /\ ParserReturned => p_result = "ok"
    /\ p_ps.bp.chunked_state.t = "Data" =>
         p_ps.bp.size_parsed <= p_ps.bp.chunked_state.size
    /\ p_result = "ok" =>
         /\ p_ps.body = p_msg.body
         /\ Headers_get(p_ps.headers, Txt_ContentLength) = Some(DecString(Len(p_msg.body)))
         /\ Headers_get(p_ps.headers, Txt_TransferEncoding) = None

(***************************************************************************)
(* Responses (message/response.rs, message/response_builder.rs)            *)
(***************************************************************************)
\* Response::new
Response_new(status_code) ==
  [status_line |-> StatusLine_new(status_code), headers |-> Headers_new, body |-> <<>>]

\* write_to as it would be if it left the headers as they are.
Response_write_headers_kept(resp) == resp.headers

\* Response::write_to, the headers afterwards: Content-Length is set when the
\* body is not empty.
Response_write_headers(resp) ==
  IF resp.body # <<>>
  THEN Headers_set(resp.headers, Txt_ContentLength, DecString(Len(resp.body)))
  ELSE resp.headers

\* Response::write_to, the bytes written: status line, header block, body.
Response_write_to(resp) ==
  StatusLine_write_to(resp.status_line)
  \o Headers_write_to(Response_write_headers(resp))
  \o resp.body

\* ResponseBuilder::new
ResponseBuilder_new ==
  [status_line |-> StatusLine_new("Ok"), headers |-> Headers_new_with_default,
   body |-> <<>>]

ResponseBuilder_set_status_code(b, status_code) ==
  [b EXCEPT !.status_line = StatusLine_new(status_code)]

ResponseBuilder_add_header(b, name, value) ==
  [b EXCEPT !.headers = Headers_set(b.headers, name, value)]

ResponseBuilder_add_to_body(b, body) == [b EXCEPT !.body = b.body \o body]

ResponseBuilder_build(b) ==
  [status_line |-> b.status_line, headers |-> b.headers, body |-> b.body]

(***************************************************************************)
(* The request line and the header queries of the Connection variant      *)
(***************************************************************************)
\* RequestLine::from_line: the line is split on single SP into exactly three
\* tokens: a method, the target verbatim, HTTP/<major>.<minor> with a
\* recognized version.
RequestLine_from_line(line) ==
  LET bad(e) == [err |-> e, line |-> [method |-> "Get", url |-> <<>>, version |-> <<1, 1>>]]
      Tokens(parts) ==
        IF Len(parts) # 3 THEN bad("MalformedRequestLine")
        ELSE IF Method_parse(parts[1]) = None THEN bad("MalformedRequestLine")
        ELSE IF Len(Split(parts[3], SLASH)) # 2 \/ Split(parts[3], SLASH)[1] # Txt_HTTP
        THEN bad("MalformedRequestLine")
        ELSE IF HttpVersion_from_bytes(Split(parts[3], SLASH)[2]) = None
        THEN bad("InvalidHttpVersion")
        ELSE [err |-> "none",
              line |-> [method |-> Method_parse(parts[1])[1], url |-> parts[2],
                        version |-> HttpVersion_from_bytes(Split(parts[3], SLASH)[2])[1]]]
  IN Tokens(Split(line, SP))

\* The tokens of a comma-separated field value, trimmed and lower-cased.
RECURSIVE ListTokens(_)
ListTokens(parts) ==
  IF parts = <<>> THEN {}
  ELSE {ToLowercase(TrimAscii(Head(parts)))} \cup ListTokens(Tail(parts))

\* Headers::field_contains_value: the stored value is a comma-separated list
\* and the test is case-insensitive token membership.
Headers_field_contains_value(h, name, v) ==
  /\ Headers_get(h, name) # None
  /\ ToLowercase(v) \in ListTokens(Split(Headers_get(h, name)[1], COMMA))

\* should_close as it would be if the response's Connection field were not
\* looked at.
should_close_request_only(req, resp) ==
  \/ /\ req.line.version = <<1, 0>>
     /\ ~Headers_field_contains_value(req.headers, Txt_Connection, Txt_keep_alive)
  \/ Headers_field_contains_value(req.headers, Txt_Connection, Txt_close)

\* should_close
should_close(req, resp) ==
  IF req.line.version = <<1, 0>>
     /\ ~Headers_field_contains_value(req.headers, Txt_Connection, Txt_keep_alive)
  THEN TRUE
  ELSE IF Headers_field_contains_value(req.headers, Txt_Connection, Txt_close)
  THEN TRUE
  ELSE IF Headers_field_contains_value(resp.headers, Txt_Connection, Txt_close)
  THEN TRUE
  ELSE FALSE

\* The response internal_error builds.
internal_error_response ==
  ResponseBuilder_build(
    ResponseBuilder_set_status_code(ResponseBuilder_new, "InternalServerError"))

(***************************************************************************)
(* StreamReader (message/stream_reader.rs)                                 *)
(***************************************************************************)
\* let buf: [u8; 2048]
StreamBufSize == 2048

\* The for loop of read_line over buf[..read] from its i-th byte (1-based):
\* found with the line and index (the bytes to drop from the buffer), or not
\* found with out and last_was_carrage_return as the loop leaves them.
RECURSIVE StreamReader_scan(_, _, _, _)
StreamReader_scan(buf, i, out, last_was_carrage_return) ==
  IF i > Len(buf)
  THEN [found |-> FALSE, out |-> out, last |-> last_was_carrage_return, index |-> 0]
  ELSE IF last_was_carrage_return /\ buf[i] = LF
  THEN [found |-> TRUE, out |-> Take(out, Len(out) - 1),
        last |-> last_was_carrage_return, index |-> Min(i, StreamBufSize)]
  ELSE StreamReader_scan(buf, i + 1, Append(out, buf[i]), buf[i] = CR)

(***************************************************************************)
(* The per-connection loop (server/mod.rs, message/connection.rs)          *)
(*                                                                         *)
(* s_pc: RequestLine, Headers (Connection::read in read_line), Framing,    *)
(* LengthBody, ChunkSize, ChunkData, ChunkEnd (parse_body), Handler,       *)
(* Respond, InternalError (handle_connection), Closed (the loop was left). *)
(* s_call: [op |-> "none"], the locals of a read_line waiting for the      *)
(* transport [op |-> "read_line", out, last], or those of a read_n         *)
(* [op |-> "read_n", n, got].                                              *)
(* s_log: a record per event: [ev |-> "request"], [ev |-> "handler"],      *)
(* [ev |-> "read"] (a transport read was issued),                          *)
(* [ev |-> "write", what |-> "response" or "500", ok, bytes].              *)
(***************************************************************************)
FieldLine(name, value) == name \o <<COLON, SP>> \o value \o CRLF

\* The bytes of a GET / request with the given version text, field lines and
\* payload.
RequestText(version, fields, payload) ==
  RequestLine_write_to([method |-> "Get", url |-> <<SLASH>>, version |-> version])
  \o fields \o CRLF \o payload

V10 == <<"1", ".", "0">>
V11 == <<"1", ".", "1">>

\* Requests that parse.
GoodRequests ==
  { RequestText(V11, <<>>, <<>>),
    RequestText(V10, <<>>, <<>>),
    RequestText(V11, FieldLine(Txt_Connection, Txt_close), <<>>),
    RequestText(V10, FieldLine(Txt_Connection, Txt_keep_alive), <<>>),
    RequestText(V11, FieldLine(Txt_ContentLength, <<"2">>), <<CR, LF>>),
    RequestText(V11, FieldLine(Txt_TransferEncoding, Txt_chunked),
                EncodeChunks(<<CR, LF>>, <<2>>)) }

\* Requests with a parse or protocol error: a malformed start line, a
\* malformed field line, a framing conflict, an invalid Content-Length, a
\* malformed chunk size, a malformed chunk body.
BadRequests ==
  { Txt_GET \o <<SP, SLASH>> \o CRLF \o CRLF,
    RequestText(V11, <<"b", "a", "d">> \o CRLF, <<>>),
    RequestText(V11, FieldLine(Txt_TransferEncoding, Txt_chunked)
                     \o FieldLine(Txt_ContentLength, <<"2">>), <<CR, LF>>),
    RequestText(V11, FieldLine(Txt_ContentLength, <<"x">>), <<>>),
    RequestText(V11, FieldLine(Txt_TransferEncoding, Txt_chunked),
                <<"Z">> \o CRLF),
    RequestText(V11, FieldLine(Txt_TransferEncoding, Txt_chunked),
                <<"1">> \o CRLF \o <<"A", "B">> \o CRLF) }

\* What follows a first request on the same connection.
SecondRequests ==
  { RequestText(V11, <<>>, <<>>),
    RequestText(V11, FieldLine(Txt_Connection, Txt_close), <<>>),
    Txt_GET \o <<SP, SLASH>> \o CRLF \o CRLF }

\* The longest sequence of requests the peer sends on one connection.
MaxRequests == 2

RECURSIVE Tails(_)
Tails(k) ==
  IF k = 0 THEN {<<>>}
  ELSE {<<>>} \cup {x \o t : x \in SecondRequests, t \in Tails(k - 1)}

\* The byte streams of a peer: one bad request, or a good request and up to
\* k - 1 more requests.
Wires(k) == BadRequests \cup {a \o t : a \in GoodRequests, t \in Tails(k - 1)}

\* The handlers the server may have been given: ResponseBuilder::new().build(),
\* the same with a body, the same with Connection: keep-alive set,
\* Response::new(Ok), and a handler that returns an error.
Handlers == {"builder", "builder_body", "builder_keep_alive", "response_new", "error"}

\* handler(&request): Err is None.
Handler_call(h, req) ==
  IF h = "builder" THEN Some(ResponseBuilder_build(ResponseBuilder_new))
  ELSE IF h = "builder_body"
  THEN Some(ResponseBuilder_build(ResponseBuilder_add_to_body(ResponseBuilder_new, <<"o", "k">>)))
  ELSE IF h = "builder_keep_alive"
  THEN Some(ResponseBuilder_build(
              ResponseBuilder_add_header(ResponseBuilder_new, Txt_Connection, Txt_keep_alive)))
  ELSE IF h = "response_new" THEN Some(Response_new("Ok"))
  ELSE None

\* Connection::read starts: a request with no fields yet.
Request_empty ==
  [line |-> [method |-> "Get", url |-> <<>>, version |-> <<1, 1>>],
   headers |-> Headers_new, body |-> <<>>]

NoCall == [op |-> "none"]

ServerInit ==
  /\ s_handler \in Handlers
  /\ s_wire \in Wires(MaxRequests)
  /\ s_pos = 0
  /\ sr_buf = <<>>
  /\ s_pc = "RequestLine"
  /\ s_call = NoCall
  /\ s_req = Request_empty
  /\ s_resp = <<>>
  /\ s_err = "none"
  /\ s_log = <<>>
  /\ ParserOff /\ FramingOff /\ PolicyOff /\ ListenerOff /\ ReaderOff /\ HeadersOff /\ WriteOff /\ StartOff /\ PoolOff

\* The reading side of the connection as one value.
Conn == [pc |-> s_pc, call |-> s_call, req |-> s_req, buf |-> sr_buf, err |-> s_err]

SetConn(c) ==
  /\ s_pc' = c.pc
  /\ s_call' = c.call
  /\ s_req' = c.req
  /\ sr_buf' = c.buf
  /\ s_err' = c.err

\* Connection::read returns Err(e), e not an I/O error of the start line or
\* the header block.
ReadFailed(c, e) == [c EXCEPT !.pc = "InternalError", !.err = e, !.call = NoCall]

\* read_n returned bytes to parse_body: the Content-Length body, or a chunk
\* with its CRLF.
ReadN_done(c, bytes) ==
  IF c.pc = "LengthBody"
  THEN [c EXCEPT !.pc = "Handler", !.call = NoCall, !.req.body = bytes]
  ELSE IF SubSeq(bytes, Len(bytes) - 1, Len(bytes)) # CRLF
  THEN ReadFailed(c, "MalformedChunkedBody")
  ELSE [c EXCEPT !.pc = "ChunkSize", !.call = NoCall,
                 !.req.body = c.req.body \o Take(bytes, Len(bytes) - 2)]

\* read_n as it would be if it went to the transport even when the buffer
\* already held all the bytes asked for.
ReadN_start_always_reads(c, n) ==
  LET Taken(len) ==
        [c EXCEPT !.buf = Drop(c.buf, len),
                  !.call = [op |-> "read_n", buf |-> Take(c.buf, len),
                            remaining |-> n - len, b |-> <<>>]]
  IN Taken(Min(Len(c.buf), n))

\* StreamReader::read_n up to its first transport read: the bytes the buffer
\* holds are taken first.
ReadN_start(c, n) ==
  LET Taken(len) ==
        IF n - len = 0
        THEN ReadN_done([c EXCEPT !.buf = Drop(c.buf, len)], Take(c.buf, len))
        ELSE [c EXCEPT !.buf = Drop(c.buf, len),
                       !.call = [op |-> "read_n", buf |-> Take(c.buf, len),
                                 remaining |-> n - len, b |-> <<>>]]
  IN Taken(Min(Len(c.buf), n))

\* The same as it would be if the size line of the last chunk ended the
\* body, the line that follows it being left unread.
ReadLine_done_last_line_unread(c, line) ==
  IF c.pc = "RequestLine"
  THEN LET Parsed(r) ==
             IF r.err # "none" THEN ReadFailed(c, r.err)
             ELSE [c EXCEPT !.pc = "Headers", !.call = NoCall, !.req.line = r.line]
       IN Parsed(RequestLine_from_line(line))
  ELSE IF c.pc = "Headers"
  THEN IF line = <<>> THEN [c EXCEPT !.pc = "Framing", !.call = NoCall]
       ELSE LET Parsed(r) ==
                  IF r.err # "none" THEN ReadFailed(c, r.err)
                  ELSE [c EXCEPT !.call = NoCall, !.req.headers = r.headers]
            IN Parsed(Headers_parse_line(c.req.headers, line))
  ELSE IF c.pc = "ChunkSize"
  THEN LET Sized(size) ==
             IF size < 0 THEN ReadFailed(c, "MalformedChunkedSize")
             ELSE IF size = 0
             THEN [c EXCEPT !.pc = "Handler", !.call = NoCall,
                            !.req.headers =
                               Headers_remove(
                                 Headers_set(c.req.headers, Txt_ContentLength,
                                             DecString(Len(c.req.body))),
                                 Txt_TransferEncoding)]
             ELSE ReadN_start([c EXCEPT !.pc = "ChunkData", !.call = NoCall], size + 2)
       IN Sized(ParseUsize(line, 16))
  ELSE [c EXCEPT !.pc = "Handler", !.call = NoCall,
                 !.req.headers =
                    Headers_remove(
                      Headers_set(c.req.headers, Txt_ContentLength,
                                  DecString(Len(c.req.body))),
                      Txt_TransferEncoding)]

\* read_line returned line to Connection::read or to parse_body.
ReadLine_done(c, line) ==
  IF c.pc = "RequestLine"
  THEN LET Parsed(r) ==
             IF r.err # "none" THEN ReadFailed(c, r.err)
             ELSE [c EXCEPT !.pc = "Headers", !.call = NoCall, !.req.line = r.line]
       IN Parsed(RequestLine_from_line(line))
  ELSE IF c.pc = "Headers"
  THEN IF line = <<>> THEN [c EXCEPT !.pc = "Framing", !.call = NoCall]
       ELSE LET Parsed(r) ==
                  IF r.err # "none" THEN ReadFailed(c, r.err)
                  ELSE [c EXCEPT !.call = NoCall, !.req.headers = r.headers]
            IN Parsed(Headers_parse_line(c.req.headers, line))
  ELSE IF c.pc = "ChunkSize"
  THEN LET Sized(size) ==
             IF size < 0 THEN ReadFailed(c, "MalformedChunkedSize")
             ELSE IF size = 0 THEN [c EXCEPT !.pc = "ChunkEnd", !.call = NoCall]
             ELSE ReadN_start([c EXCEPT !.pc = "ChunkData", !.call = NoCall], size + 2)
       IN Sized(ParseUsize(line, 16))
  ELSE [c EXCEPT !.pc = "Handler", !.call = NoCall,
                 !.req.headers =
                    Headers_remove(
                      Headers_set(c.req.headers, Txt_ContentLength,
                                  DecString(Len(c.req.body))),
                      Txt_TransferEncoding)]

\* The loop of read_line from its for loop on: the line is found in the
\* buffer, or the buffer is used up and the call waits for the transport.
ReadLine_scan(c, out, last) ==
  LET Scanned(r) ==
        IF r.found THEN ReadLine_done([c EXCEPT !.buf = Drop(c.buf, r.index)], r.out)
        ELSE [c EXCEPT !.call = [op |-> "read_line", out |-> r.out, last |-> r.last]]
  IN Scanned(StreamReader_scan(c.buf, 1, out, last))

LinePcs == {"RequestLine", "Headers", "ChunkSize", "ChunkEnd"}

\* The bytes the transport delivers next when it delivers n of them.
Delivered(n) == SubSeq(s_wire, s_pos + 1, s_pos + n)

\* The ways a write to the transport ends: all the bytes written (ok), or an
\* error after none of them, after the first of them, or at the flush after
\* all of them.
WriteOutcomes(bytes) ==
  {[ok |-> TRUE, bytes |-> bytes]}
  \cup {[ok |-> FALSE, bytes |-> Take(bytes, k)] : k \in {0, Min(1, Len(bytes)), Len(bytes)}}

\* read_line is called (for the request line, a field line, a chunk-size line
\* or the line after the last chunk) and scans what the buffer holds.
ReadLine ==
  /\ s_pc \in LinePcs
  /\ s_call = NoCall
  /\ SetConn(ReadLine_scan(Conn, <<>>, FALSE))
  /\ UNCHANGED <<otherThanServer, s_handler, s_wire, s_pos, s_resp, s_log>>

\* read_line as it would be if a read of 0 bytes were not taken for the end
\* of the transport and the loop went round.
ReadLine_fill_or_spin ==
  /\ s_call.op = "read_line"
  /\ \E n \in {0} \cup FragmentSizes(Min(Len(s_wire) - s_pos, StreamBufSize)) :
       /\ s_pos' = s_pos + n
       /\ SetConn(ReadLine_scan([Conn EXCEPT !.buf = Delivered(n)],
                                s_call.out, s_call.last))
  /\ UNCHANGED <<otherThanServer, s_handler, s_wire, s_resp, s_log>>

\* read_line: the transport delivers n > 0 bytes into the buffer, which the
\* loop then scans.
ReadLine_fill ==
  /\ s_call.op = "read_line"
  /\ \E n \in FragmentSizes(Min(Len(s_wire) - s_pos, StreamBufSize)) :
       /\ s_pos' = s_pos + n
       /\ SetConn(ReadLine_scan([Conn EXCEPT !.buf = Delivered(n)],
                                s_call.out, s_call.last))
  /\ UNCHANGED <<otherThanServer, s_handler, s_wire, s_resp, s_log>>

\* The end of the transport in read_line as it would be if the error were not
\* told apart from the other read errors.
ReadLine_eof_as_error ==
  /\ s_call.op = "read_line"
  /\ SetConn(ReadFailed(Conn, "IO(ConnectionAborted)"))
  /\ UNCHANGED <<otherThanServer, s_handler, s_wire, s_pos, s_resp, s_log>>

\* read_line: the transport returns 0 bytes (the peer has closed after the
\* bytes delivered so far).  In the start line or the header block
\* Connection::read returns RequestError::IO(ConnectionAborted) and the loop
\* is left; inside parse_body the error is a body error.
ReadLine_eof ==
  /\ s_call.op = "read_line"
  /\ IF s_pc \in {"RequestLine", "Headers"}
     THEN SetConn([Conn EXCEPT !.pc = "Closed", !.call = NoCall,
                               !.err = "IO(ConnectionAborted)"])
     ELSE SetConn(ReadFailed(Conn, "Body(IO(ConnectionAborted))"))
  /\ UNCHANGED <<otherThanServer, s_handler, s_wire, s_pos, s_resp, s_log>>

\* parse_body: the framing is resolved from the headers; a body of known
\* length is read with read_n, a chunked one starts in the Size state.
ParseBody ==
  /\ s_pc = "Framing"
  /\ LET Resolved(r) ==
           IF r.err # "none" THEN ReadFailed(Conn, r.err)
           ELSE IF r.encoding[1].t = "Chunked" THEN [Conn EXCEPT !.pc = "ChunkSize"]
           ELSE ReadN_start([Conn EXCEPT !.pc = "LengthBody"], r.encoding[1].n)
     IN SetConn(Resolved(BodyParser_set_encoding(None, s_req.headers)))
  /\ UNCHANGED <<otherThanServer, s_handler, s_wire, s_pos, s_resp, s_log>>

\* read_n: the transport delivers n > 0 of the bytes still missing.
ReadN_fill ==
  /\ s_call.op = "read_n"
  /\ \E n \in FragmentSizes(Min(Len(s_wire) - s_pos,
                                s_call.remaining - Len(s_call.b))) :
       /\ s_pos' = s_pos + n
       /\ IF Len(s_call.b) + n < s_call.remaining
          THEN SetConn([Conn EXCEPT !.call.b = s_call.b \o Delivered(n)])
          ELSE SetConn(ReadN_done(Conn, s_call.buf \o s_call.b \o Delivered(n)))
  /\ UNCHANGED <<otherThanServer, s_handler, s_wire, s_resp, s_log>>

\* The end of the transport in read_n as it would be if read_n returned the
\* bytes it has.
ReadN_eof_short ==
  /\ s_call.op = "read_n"
  /\ SetConn(ReadN_done(Conn, s_call.buf \o s_call.b))
  /\ UNCHANGED <<otherThanServer, s_handler, s_wire, s_pos, s_resp, s_log>>

\* read_n: the transport returns 0 bytes before the count is reached.
ReadN_eof ==
  /\ s_call.op = "read_n"
  /\ SetConn(ReadFailed(Conn, "Body(IO(ConnectionAborted))"))
  /\ UNCHANGED <<otherThanServer, s_handler, s_wire, s_pos, s_resp, s_log>>

\* The handler call as it would be if the loop went on to the next request
\* after a handler error.
Handler_error_skipped ==
  /\ s_pc = "Handler"
  /\ LET Returned(r) ==
           /\ s_log' = Append(s_log, [ev |-> "handler", ok |-> r # None])
           /\ IF r = None
              THEN s_pc' = "RequestLine" /\ s_err' = "Handler" /\ s_resp' = s_resp
              ELSE s_pc' = "Respond" /\ s_err' = s_err /\ s_resp' = r
     IN Returned(Handler_call(s_handler, s_req))
  /\ UNCHANGED <<otherThanServer, s_handler, s_wire, s_pos, sr_buf, s_call, s_req>>

\* handler(&request)
Handler ==
  /\ s_pc = "Handler"
  /\ LET Returned(r) ==
           /\ s_log' = Append(s_log, [ev |-> "handler", ok |-> r # None])
           /\ IF r = None
              THEN s_pc' = "InternalError" /\ s_err' = "Handler" /\ s_resp' = s_resp
              ELSE s_pc' = "Respond" /\ s_err' = s_err /\ s_resp' = r
     IN Returned(Handler_call(s_handler, s_req))
  /\ UNCHANGED <<otherThanServer, s_handler, s_wire, s_pos, sr_buf, s_call, s_req>>

\* respond as it would be if the loop went on to the next request after a
\* failed write.
Respond_write_failure_ignored ==
  /\ s_pc = "Respond"
  /\ \E w \in WriteOutcomes(Response_write_to(s_resp[1])) :
       /\ s_log' = Append(s_log, [ev |-> "write", what |-> "response",
                                  ok |-> w.ok, bytes |-> w.bytes])
       /\ s_resp' = Some([s_resp[1] EXCEPT !.headers = Response_write_headers(s_resp[1])])
       /\ IF should_close(s_req, s_resp'[1])
          THEN s_pc' = "Closed" /\ s_err' = s_err /\ s_req' = s_req
          ELSE s_pc' = "RequestLine" /\ s_err' = s_err /\ s_req' = Request_empty
  /\ UNCHANGED <<otherThanServer, s_handler, s_wire, s_pos, sr_buf, s_call>>

\* respond as it would be if a 500 were written after every response.
Respond_then_500 ==
  /\ s_pc = "Respond"
  /\ \E w \in WriteOutcomes(Response_write_to(s_resp[1])) :
       /\ s_log' = Append(s_log, [ev |-> "write", what |-> "response",
                                  ok |-> w.ok, bytes |-> w.bytes])
       /\ s_resp' = Some([s_resp[1] EXCEPT !.headers = Response_write_headers(s_resp[1])])
       /\ s_pc' = "InternalError" /\ s_err' = "Write" /\ s_req' = s_req
  /\ UNCHANGED <<otherThanServer, s_handler, s_wire, s_pos, sr_buf, s_call>>

\* connection.respond(&mut response), then should_close: the loop is left or
\* goes round to the next Connection::read.
Respond ==
  /\ s_pc = "Respond"
  /\ \E w \in WriteOutcomes(Response_write_to(s_resp[1])) :
       /\ s_log' = Append(s_log, [ev |-> "write", what |-> "response",
                                  ok |-> w.ok, bytes |-> w.bytes])
       /\ s_resp' = Some([s_resp[1] EXCEPT !.headers = Response_write_headers(s_resp[1])])
       /\ IF ~w.ok
          THEN s_pc' = "InternalError" /\ s_err' = "Write" /\ s_req' = s_req
          ELSE IF should_close(s_req, s_resp'[1])
          THEN s_pc' = "Closed" /\ s_err' = s_err /\ s_req' = s_req
          ELSE s_pc' = "RequestLine" /\ s_err' = s_err /\ s_req' = Request_empty
  /\ UNCHANGED <<otherThanServer, s_handler, s_wire, s_pos, sr_buf, s_call>>

\* internal_error as it would be if the loop were not left after it.
InternalError_no_break ==
  /\ s_pc = "InternalError"
  /\ \E w \in WriteOutcomes(Response_write_to(internal_error_response)) :
       s_log' = Append(s_log, [ev |-> "write", what |-> "500",
                               ok |-> w.ok, bytes |-> w.bytes])
  /\ s_pc' = "RequestLine"
  /\ s_req' = Request_empty
  /\ UNCHANGED <<otherThanServer, s_handler, s_wire, s_pos, sr_buf, s_call, s_resp, s_err>>

\* internal_error(&mut connection), then break.
InternalError ==
  /\ s_pc = "InternalError"
  /\ \E w \in WriteOutcomes(Response_write_to(internal_error_response)) :
       s_log' = Append(s_log, [ev |-> "write", what |-> "500",
                               ok |-> w.ok, bytes |-> w.bytes])
  /\ s_pc' = "Closed"
  /\ UNCHANGED <<otherThanServer, s_handler, s_wire, s_pos, sr_buf, s_call, s_req, s_resp, s_err>>

ServerNext ==
  \/ ReadLine \/ ReadLine_fill \/ ReadLine_eof
  \/ ParseBody \/ ReadN_fill \/ ReadN_eof
  \/ Handler \/ Respond \/ InternalError

SpecServer == ServerInit /\ [][ServerNext]_vars

(***************************************************************************)
(* BodyParser::parse_body on bounded header maps                           *)
(***************************************************************************)
\* An Option of a field value put under name in h.
WithField(h, name, value) ==
  IF value = None THEN h ELSE Headers_set(h, name, value[1])

\* The Transfer-Encoding values tried: absent, chunked, and values that are
\* not exactly chunked.
TransferEncodingValues ==
  { None, Some(Txt_chunked), Some(<<"C">> \o Tail(Txt_chunked)),
    Some(<<"g", "z", "i", "p">>), Some(Txt_chunked \o <<COMMA>> \o Txt_chunked),
    Some(<<"g", "z", "i", "p", COMMA, SP>> \o Txt_chunked), Some(<<>>) }

\* The Content-Length values tried: absent, numbers, lists, non-numbers.
ContentLengthValues ==
  { None, Some(<<"0">>), Some(<<"2">>), Some(<<"2", COMMA, SP, "2">>),
    Some(<<"2", COMMA, "3">>), Some(<<"x">>), Some(<<>>) }

\* The bytes handed to the first parse_body call.
FramingInputs ==
  { <<>>, <<"A", "B">>, EncodeChunks(<<"A", "B">>, <<2>>) }

FramingInit ==
  /\ \E te \in TransferEncodingValues, cl \in ContentLengthValues :
       f_headers = WithField(WithField(Headers_new, Txt_TransferEncoding, te),
                             Txt_ContentLength, cl)
  /\ f_bytes \in FramingInputs
  /\ f_body = <<>>
  /\ f_bp = BodyParser_new
  /\ f_result = "unset"
  /\ ParserOff /\ ServerOff /\ PolicyOff /\ ListenerOff /\ ReaderOff /\ HeadersOff /\ WriteOff /\ StartOff /\ PoolOff

\* parse_body(&mut body, &mut headers, bytes) on a new BodyParser.
FramingParse ==
  /\ f_result = "unset"
  /\ LET Parsed(r) ==
           /\ f_result' = (IF r.err = "none" THEN "Ok" ELSE r.err)
           /\ f_body' = r.body
           /\ f_headers' = r.headers
           /\ f_bp' = r.bp
     IN Parsed(BodyParser_parse_body(f_bp, f_body, f_headers, f_bytes))
  /\ UNCHANGED <<otherThanFraming, f_bytes>>

FramingNext == FramingParse

SpecFraming == FramingInit /\ [][FramingNext]_vars

(***************************************************************************)
(* should_close on bounded requests and responses                          *)
(***************************************************************************)
\* The Connection values tried: absent, the two tokens in several letter
\* cases and positions of a list, and values that only resemble them.
ConnectionValues ==
  { None, Some(Txt_close), Some(Txt_keep_alive),
    Some(<<"C", "L", "O", "S", "E">>),
    Some(<<"K">> \o Tail(Txt_keep_alive)),
    Some(Txt_keep_alive \o <<COMMA, SP>> \o Txt_close),
    Some(<<"u", "p", "g", "r", "a", "d", "e", COMMA>> \o Txt_close),
    Some(Txt_close \o <<"d">>),
    Some(<<"u", "p", "g", "r", "a", "d", "e">>) }

PolicyInit ==
  /\ \E v \in {<<1, 0>>, <<1, 1>>}, c \in ConnectionValues :
       k_req = [Request_empty EXCEPT !.line.version = v,
                                     !.headers = WithField(Headers_new, Txt_Connection, c)]
  /\ \E c \in ConnectionValues :
       k_resp = [Response_new("Ok") EXCEPT
                   !.headers = WithField(Headers_new, Txt_Connection, c)]
  /\ k_result = None
  /\ ParserOff /\ ServerOff /\ FramingOff /\ ListenerOff /\ ReaderOff /\ HeadersOff /\ WriteOff /\ StartOff /\ PoolOff

\* should_close(&request, &response)
PolicyShouldClose ==
  /\ k_result = None
  /\ k_result' = Some(should_close(k_req, k_resp))
  /\ UNCHANGED <<otherThanPolicy, k_req, k_resp>>

PolicyNext == PolicyShouldClose

SpecPolicy == PolicyInit /\ [][PolicyNext]_vars

(***************************************************************************)
(* Properties of the per-connection loop                                   *)
(***************************************************************************)
\* The error of a read_n or a chunk read_line that met the end of the
\* transport: an I/O error of kind ConnectionAborted, "Unexpected EOF".
BodyEof == "Body(IO(ConnectionAborted))"

\* The Content-Length a request carries, -1 when it carries none.
AdvertisedLength(req) ==
  IF Headers_get(req.headers, Txt_ContentLength) = None THEN -1
  ELSE ParseUsize(Headers_get(req.headers, Txt_ContentLength)[1], 10)

LastEvent(log) == log[Len(log)]

\* Once the loop is left nothing is read, written or changed.
ClosedIsFinal == s_pc = "Closed" => UNCHANGED serverVars

\* C3: length enforcement.  When the transport ends while read_n is still
\* reading a Content-Length body, Connection::read fails with the
\* unexpected-EOF I/O error; and whenever Connection::read succeeds with a
\* Content-Length of N in the headers, the body has N bytes.
C3_LengthEnforcement ==
  [][ /\ (s_pc = "LengthBody" /\ s_pos' = s_pos) =>
           (s_pc' = "InternalError" /\ s_err' = BodyEof)
      /\ (s_pc' = "Handler" /\ AdvertisedLength(s_req') >= 0) =>
           Len(s_req'.body) = AdvertisedLength(s_req') ]_vars

\* The request Content-Length: 2 was cut off after one byte of its body.
C3_Witness ==
  /\ s_err = BodyEof
  /\ AdvertisedLength(s_req) = 2
  /\ Headers_get(s_req.headers, Txt_TransferEncoding) = None
  /\ s_pos = Len(RequestText(V11, FieldLine(Txt_ContentLength, <<"2">>), <<>>)) + 1

\* The header map has both framing fields, or a Transfer-Encoding that is
\* not exactly chunked.
FramingConflict(h) ==
  /\ Headers_get(h, Txt_TransferEncoding) # None
  /\ \/ Headers_get(h, Txt_ContentLength) # None
     \/ Headers_get(h, Txt_TransferEncoding)[1] # Txt_chunked

\* C4: framing conflict.  parse_body on headers with both Transfer-Encoding
\* and Content-Length, or with a Transfer-Encoding other than exactly
\* chunked, fails with InvalidHeaderFields; the body buffer takes no byte and
\* the headers stay as they were.
C4_FramingConflict ==
  [][ FramingConflict(f_headers) =>
        /\ f_result' = "InvalidHeaderFields"
        /\ f_body' = f_body
        /\ f_headers' = f_headers ]_vars

\* parse_body has refused Transfer-Encoding: Chunked, with bytes offered.
C4_Witness ==
  /\ f_result = "InvalidHeaderFields"
  /\ Headers_get(f_headers, Txt_TransferEncoding) = Some(<<"C">> \o Tail(Txt_chunked))
  /\ Headers_get(f_headers, Txt_ContentLength) = None
  /\ f_bytes # <<>>

\* C5: keep-alive policy.  should_close is true exactly when the request is
\* HTTP/1.0 without the token keep-alive in its Connection field, or the
\* request's Connection field has the token close, or the response's has.
C5_KeepAlivePolicy ==
  k_result # None =>
    k_result[1] =
      ( \/ /\ k_req.line.version = <<1, 0>>
           /\ ~Headers_field_contains_value(k_req.headers, Txt_Connection, Txt_keep_alive)
        \/ Headers_field_contains_value(k_req.headers, Txt_Connection, Txt_close)
        \/ Headers_field_contains_value(k_resp.headers, Txt_Connection, Txt_close) )

\* should_close has returned true for an HTTP/1.1 request without a
\* Connection field, because of the response's upgrade,close.
C5_Witness ==
  /\ k_result = Some(TRUE)
  /\ k_req.line.version = <<1, 1>>
  /\ Headers_get(k_req.headers, Txt_Connection) = None
  /\ Headers_get(k_resp.headers, Txt_Connection)
       = Some(<<"u", "p", "g", "r", "a", "d", "e", COMMA>> \o Txt_close)

\* C6: keep-alive with the default builder.  After the response of a handler
\* that builds it with ResponseBuilder::new has been written for an HTTP/1.1
\* request without Connection: close, the loop goes on to read the next
\* request.
C6_KeepAliveDefaultBuilder ==
  [][ ( /\ s_pc = "Respond"
        /\ s_handler = "builder"
        /\ s_req.line.version = <<1, 1>>
        /\ ~Headers_field_contains_value(s_req.headers, Txt_Connection, Txt_close)
        /\ LastEvent(s_log').ok )
      => s_pc' = "RequestLine" ]_vars

\* The errors of Connection::read that are parse or protocol errors.
ParseErrors ==
  { "MalformedRequestLine", "InvalidHttpVersion", "MalformedHeader",
    "InvalidHeaderFields", "InvalidContentLength", "MalformedChunkedSize",
    "MalformedChunkedBody" }

\* The log of complete exchanges only: a handler call that returned a
\* response, then that response written, any number of times.
ExchangesOnly(log) ==
  /\ Len(log) % 2 = 0
  /\ \A i \in DOMAIN log :
       IF i % 2 = 1 THEN log[i].ev = "handler" /\ log[i].ok
       ELSE log[i].ev = "write" /\ log[i].what = "response" /\ log[i].ok

\* The step writes (or fails to write) one 500 response and nothing else,
\* reads nothing, and leaves the loop.
One500AndLeave ==
  /\ s_pc' = "Closed"
  /\ Len(s_log') = Len(s_log) + 1
  /\ SubSeq(s_log', 1, Len(s_log)) = s_log
  /\ LastEvent(s_log').ev = "write"
  /\ LastEvent(s_log').what = "500"
  /\ LastEvent(s_log').ok =>
       LastEvent(s_log').bytes = Response_write_to(internal_error_response)
  /\ s_pos' = s_pos

\* C7: parse errors.  When Connection::read fails with a parse or protocol
\* error the handler has not been called for that message, the next step is
\* the one write of a 500 response, and the loop is left for good.
C7_ParseErrorAnswered500 ==
  [][ /\ (s_pc' = "InternalError" /\ s_err' \in ParseErrors) =>
           (s_log' = s_log /\ ExchangesOnly(s_log))
      /\ (s_pc = "InternalError" /\ s_err \in ParseErrors) => One500AndLeave
      /\ ClosedIsFinal ]_vars

\* A malformed second request on a kept-alive connection was answered 500.
C7_Witness ==
  /\ s_pc = "Closed"
  /\ s_err \in ParseErrors
  /\ Len(s_log) = 3
  /\ s_log[3].what = "500"
  /\ s_log[3].ok

C9_HandlerErrorAnswered500 ==
  [][ /\ (s_pc = "Handler" /\ ~LastEvent(s_log').ok) =>
           (s_pc' = "InternalError" /\ s_err' = "Handler" /\ s_pos' = s_pos)
      /\ (s_pc = "InternalError" /\ s_err = "Handler") => One500AndLeave
      /\ ClosedIsFinal ]_vars

\* A handler error was answered with a 500 and the loop was left.
C9_Witness ==
  /\ s_pc = "Closed"
  /\ s_err = "Handler"
  /\ Len(s_log) = 2
  /\ s_log[1].ev = "handler" /\ ~s_log[1].ok
  /\ s_log[2].what = "500" /\ s_log[2].ok

\* The 500 responses written in full.
Written500 ==
  {s_log[i].bytes : i \in {j \in DOMAIN s_log :
     s_log[j].ev = "write" /\ s_log[j].what = "500" /\ s_log[j].ok}}

\* C10: the response of internal_error has status 500, an empty body and no
\* header fields, and is written as the 500 status line and the blank line.
C10_NoHeaderFields ==
  /\ internal_error_response.status_line.status_code = "InternalServerError"
  /\ internal_error_response.body = <<>>
  /\ \A bytes \in Written500 :
       bytes = StatusLine_write_to(StatusLine_new("InternalServerError")) \o CRLF

(***************************************************************************)
(* Order of requests and responses on one connection                       *)
(***************************************************************************)
\* The request texts Connection::read accepts.
WholeRequests == GoodRequests \cup SecondRequests

\* The pairs <<k, off>>: the first off bytes of wire, from <<k0, off0>> on,
\* are k whole requests one after the other.
RECURSIVE RequestEnds(_, _, _)
RequestEnds(wire, k0, off0) ==
  {<<k0, off0>>}
  \cup UNION { RequestEnds(wire, k0 + 1, off0 + Len(r)) :
                 r \in {x \in WholeRequests :
                          /\ off0 + Len(x) <= Len(wire)
                          /\ SubSeq(wire, off0 + 1, off0 + Len(x)) = x} }

\* The positions of handle_connection inside Connection::read.
ReadingPcs == LinePcs \cup {"Framing", "LengthBody", "ChunkData"}

\* How many requests were handed to the handler.
HandledCount(log) == Cardinality({i \in DOMAIN log : log[i].ev = "handler"})

\* Every request handed to the handler was answered: the next event is the
\* write of its response, all of its bytes written and flushed.
Answered(log) ==
  \A i \in DOMAIN log :
    log[i].ev = "handler" =>
      /\ log[i].ok
      /\ i < Len(log)
      /\ log[i + 1] = [ev |-> "write", what |-> "response", ok |-> TRUE,
                       bytes |-> Response_write_to(Handler_call(s_handler, s_req)[1])]

\* C11: requests are consumed in wire order and without overlap.  The k-th
\* request handed to the handler is made of the bytes that follow the first
\* k - 1 whole requests of the wire; while Connection::read is reading, every
\* request handled before has had its response written in full and flushed;
\* and a response is written only right after the handler call it answers.
C11_InOrderNoOverlap ==
  [][ /\ (s_pc' = "Handler" /\ s_pc # "Handler") =>
           <<HandledCount(s_log) + 1, s_pos' - Len(sr_buf')>> \in RequestEnds(s_wire, 0, 0)
      /\ (s_pc \in ReadingPcs \/ s_pc' \in ReadingPcs) => Answered(s_log')
      /\ (Len(s_log') > Len(s_log) /\ LastEvent(s_log').ev = "write"
          /\ LastEvent(s_log').what = "response") =>
           (Len(s_log) > 0 /\ LastEvent(s_log) = [ev |-> "handler", ok |-> TRUE]) ]_vars

\* A second request was read and handed to the handler after the response to
\* the first one was written.
C11_Witness ==
  /\ s_pc = "Respond"
  /\ HandledCount(s_log) = 2
  /\ s_log[2].ev = "write" /\ s_log[2].ok

(***************************************************************************)
(* The listener (server/mod.rs, Server::listen_and_serve)                  *)
(*                                                                         *)
(* l_conn[c] for each inbound stream c:                                    *)
(*   net: "none" (not connected yet), "backlog" (connected, not accepted   *)
(*        yet), "accepted";                                                *)
(*   sent: how much of a request the peer has sent: 0 nothing, 1 a part,   *)
(*        2 the whole request;                                             *)
(*   peer_closed: the peer has closed its side;                            *)
(*   pc: the task spawned for the stream: "none", "read" (in               *)
(*        Connection::read), "handler" (the request was read), "closed"    *)
(*        (handle_connection returned);                                    *)
(*   responded: a response was written for a request of the stream.        *)
(***************************************************************************)
\* The most inbound streams that reach the listener.
MaxConnections == 2

Connections == 1 .. MaxConnections

ListenerInit ==
  /\ l_state = "accepting"
  /\ l_conn = [c \in Connections |->
                 [net |-> "none", sent |-> 0, peer_closed |-> FALSE,
                  pc |-> "none", responded |-> FALSE]]
  /\ ParserOff /\ ServerOff /\ FramingOff /\ PolicyOff /\ ReaderOff /\ HeadersOff /\ WriteOff /\ StartOff /\ PoolOff

\* A peer connects: the stream waits in the listener's backlog.
Connect(c) ==
  /\ l_conn[c].net = "none"
  /\ \A d \in 1 .. c - 1 : l_conn[d].net # "none"
  /\ l_conn' = [l_conn EXCEPT ![c].net = "backlog"]
  /\ UNCHANGED <<otherThanListener, l_state>>

\* A peer sends the next part of its request.
PeerSend(c) ==
  /\ l_conn[c].net # "none"
  /\ ~l_conn[c].peer_closed
  /\ l_conn[c].sent < 2
  /\ l_conn' = [l_conn EXCEPT ![c].sent = @ + 1]
  /\ UNCHANGED <<otherThanListener, l_state>>

\* A peer closes its side before its request is complete.
PeerClose(c) ==
  /\ l_conn[c].net # "none"
  /\ ~l_conn[c].peer_closed
  /\ l_conn[c].sent < 2
  /\ l_conn' = [l_conn EXCEPT ![c].peer_closed = TRUE]
  /\ UNCHANGED <<otherThanListener, l_state>>

\* self.listener.accept().await returns Ok: the oldest stream of the backlog
\* is handed to a new task running handle_connection.
Accept ==
  /\ l_state = "accepting"
  /\ \E c \in Connections :
       /\ l_conn[c].net = "backlog"
       /\ \A d \in 1 .. c - 1 : l_conn[d].net = "accepted"
       /\ l_conn' = [l_conn EXCEPT ![c].net = "accepted", ![c].pc = "read"]
  /\ UNCHANGED <<otherThanListener, l_state>>

\* self.listener.accept().await returns Err: the ? operator returns it from
\* listen_and_serve.
Accept_err ==
  /\ l_state = "accepting"
  /\ l_state' = "returned"
  /\ UNCHANGED <<otherThanListener, l_conn>>

\* The tasks as they would run if each stream were served in turn, a stream
\* only after the streams accepted before it are done.
Runnable_in_turn(c) ==
  /\ l_conn[c].pc \notin {"none", "closed"}
  /\ \A d \in 1 .. c - 1 : l_conn[d].pc = "closed"

\* tokio::spawn: the task of an accepted stream runs whenever it has
\* something to do, whatever the other tasks are waiting for.
Runnable(c) == l_conn[c].pc \notin {"none", "closed"}

\* Connection::read of the task returns the request the peer has sent.
TaskRead(c) ==
  /\ Runnable(c)
  /\ l_conn[c].pc = "read"
  /\ l_conn[c].sent = 2
  /\ l_conn' = [l_conn EXCEPT ![c].pc = "handler"]
  /\ UNCHANGED <<otherThanListener, l_state>>

\* Connection::read of the task meets the end of the stream: the loop is
\* left.
TaskEof(c) ==
  /\ Runnable(c)
  /\ l_conn[c].pc = "read"
  /\ l_conn[c].peer_closed
  /\ l_conn' = [l_conn EXCEPT ![c].pc = "closed"]
  /\ UNCHANGED <<otherThanListener, l_state>>

\* The handler is called and a response (its own or the 500) is written;
\* the loop is left, or goes round to read the next request of the stream.
TaskServe(c) ==
  /\ Runnable(c)
  /\ l_conn[c].pc = "handler"
  /\ \E close \in BOOLEAN :
       l_conn' = [l_conn EXCEPT ![c].responded = TRUE,
                                ![c].pc = IF close THEN "closed" ELSE "read",
                                ![c].sent = IF close THEN @ ELSE 0]
  /\ UNCHANGED <<otherThanListener, l_state>>

ListenerNext ==
  \/ \E c \in Connections : Connect(c)
  \/ \E c \in Connections : PeerSend(c)
  \/ \E c \in Connections : PeerClose(c)
  \/ Accept
  \/ Accept_err
  \/ \E c \in Connections : TaskRead(c)
  \/ \E c \in Connections : TaskEof(c)
  \/ \E c \in Connections : TaskServe(c)

SpecListener == ListenerInit /\ [][ListenerNext]_vars

\* The runtime runs every task that is ready.
SpecListenerFair ==
  /\ SpecListener
  /\ \A c \in Connections : WF_vars(TaskRead(c)) /\ WF_vars(TaskServe(c))

\* C12: a failure to accept a stream does not end the listener:
\* listen_and_serve stays in its accept loop.
C12_ListenerKeepsAccepting == [][l_state = "accepting" => l_state' = "accepting"]_vars

MaxSource == 4
MaxCalls == 3
MaxReadN == 2

RECURSIVE ByteStrings(_, _)
ByteStrings(alphabet, n) ==
  IF n = 0 THEN {<<>>}
  ELSE ByteStrings(alphabet, n - 1)
       \cup {Append(s, b) : s \in {t \in ByteStrings(alphabet, n - 1) : Len(t) = n - 1},
                            b \in alphabet}

Sources == ByteStrings({"a", CR, LF}, MaxSource)

ReaderInit ==
  /\ r_src \in Sources
  /\ r_pos = 0
  /\ r_buf = <<>>
  /\ r_call = NoCall
  /\ r_ret = <<>>
  /\ r_err = "none"
  /\ ParserOff /\ ServerOff /\ FramingOff /\ PolicyOff /\ ListenerOff /\ HeadersOff /\ WriteOff /\ StartOff /\ PoolOff

\* The bytes the source delivers next when it delivers n of them.
SourceDelivers(n) == SubSeq(r_src, r_pos + 1, r_pos + n)

\* The loop of read_line from its for loop on, over the buffer buf: the line
\* is returned and the rest of the buffer kept, or the buffer is used up and
\* the call waits for the source.
Rd_scan(buf, out, last, start) ==
  LET Scanned(r) ==
        IF r.found
        THEN /\ r_buf' = Drop(buf, r.index)
             /\ r_call' = NoCall
             /\ r_ret' = Append(r_ret, [op |-> "read_line", n |-> 0,
                                        bytes |-> r.out, start |-> start])
        ELSE /\ r_buf' = buf
             /\ r_call' = [op |-> "read_line", out |-> r.out, last |-> r.last,
                           start |-> start]
             /\ r_ret' = r_ret
  IN Scanned(StreamReader_scan(buf, 1, out, last))

\* read_line is called and scans what the buffer holds.
RdLine ==
  /\ r_call = NoCall /\ r_err = "none" /\ Len(r_ret) < MaxCalls
  /\ Rd_scan(r_buf, <<>>, FALSE, r_pos - Len(r_buf))
  /\ UNCHANGED <<otherThanReader, r_src, r_pos, r_err>>

\* read_line: the source delivers n > 0 bytes into the buffer, which the loop
\* then scans.
RdLine_fill ==
  /\ r_call.op = "read_line"
  /\ \E n \in FragmentSizes(Min(Len(r_src) - r_pos, StreamBufSize)) :
       /\ r_pos' = r_pos + n
       /\ Rd_scan(SourceDelivers(n), r_call.out, r_call.last, r_call.start)
  /\ UNCHANGED <<otherThanReader, r_src, r_err>>

\* The end of the source in read_line as it would be if the bytes read so
\* far were returned as a line.
RdLine_eof_partial ==
  /\ r_call.op = "read_line"
  /\ r_call' = NoCall
  /\ r_ret' = Append(r_ret, [op |-> "read_line", n |-> 0,
                             bytes |-> r_call.out, start |-> r_call.start])
  /\ UNCHANGED <<otherThanReader, r_src, r_pos, r_buf, r_err>>

\* read_line: the source returns 0 bytes before a terminator is seen.
RdLine_eof ==
  /\ r_call.op = "read_line"
  /\ r_call' = NoCall
  /\ r_err' = "UnexpectedEof"
  /\ UNCHANGED <<otherThanReader, r_src, r_pos, r_buf, r_ret>>

\* read_n as it would be if it took nothing from the buffer.
ReadN_buffered_none(buf, n) == 0

\* read_n: let len = self.read.min(n), the bytes taken from the buffer.
ReadN_buffered(buf, n) == Min(Len(buf), n)

\* read_n(n) is called: the bytes the buffer holds are taken first; the call
\* returns if they are enough, or waits for the source.
RdN ==
  /\ r_call = NoCall /\ r_err = "none" /\ Len(r_ret) < MaxCalls
  /\ \E n \in 0 .. MaxReadN :
       LET Taken(len) ==
             /\ r_buf' = Drop(r_buf, len)
             /\ IF n - len = 0
                THEN /\ r_call' = NoCall
                     /\ r_ret' = Append(r_ret, [op |-> "read_n", n |-> n,
                                                bytes |-> Take(r_buf, len),
                                                start |-> r_pos - Len(r_buf)])
                ELSE /\ r_call' = [op |-> "read_n", n |-> n, buf |-> Take(r_buf, len),
                                   remaining |-> n - len, b |-> <<>>,
                                   start |-> r_pos - Len(r_buf)]
                     /\ r_ret' = r_ret
       IN Taken(ReadN_buffered(r_buf, n))
  /\ UNCHANGED <<otherThanReader, r_src, r_pos, r_err>>

\* read_n: the source delivers n > 0 of the bytes still missing.
RdN_fill ==
  /\ r_call.op = "read_n"
  /\ \E n \in FragmentSizes(Min(Len(r_src) - r_pos,
                                r_call.remaining - Len(r_call.b))) :
       /\ r_pos' = r_pos + n
       /\ IF Len(r_call.b) + n < r_call.remaining
          THEN /\ r_call' = [r_call EXCEPT !.b = r_call.b \o SourceDelivers(n)]
               /\ r_ret' = r_ret
          ELSE /\ r_call' = NoCall
               /\ r_ret' = Append(r_ret, [op |-> "read_n", n |-> r_call.n,
                                          bytes |-> r_call.buf \o r_call.b
                                                    \o SourceDelivers(n),
                                          start |-> r_call.start])
  /\ UNCHANGED <<otherThanReader, r_src, r_buf, r_err>>

\* read_n: the source returns 0 bytes before the count is reached.
RdN_eof ==
  /\ r_call.op = "read_n"
  /\ r_call' = NoCall
  /\ r_err' = "UnexpectedEof"
  /\ UNCHANGED <<otherThanReader, r_src, r_pos, r_buf, r_ret>>

ReaderNext ==
  \/ RdLine \/ RdLine_fill \/ RdLine_eof
  \/ RdN \/ RdN_fill \/ RdN_eof

SpecReader == ReaderInit /\ [][ReaderNext]_vars

\* What the returned calls hand out, in order, with the CRLF that read_line
\* leaves out put back after each line.
RECURSIVE Rebuilt(_)
Rebuilt(ret) ==
  IF ret = <<>> THEN <<>>
  ELSE Rebuilt(Take(ret, Len(ret) - 1))
       \o ret[Len(ret)].bytes
       \o (IF ret[Len(ret)].op = "read_line" THEN CRLF ELSE <<>>)

\* C14: leftover bytes are preserved across calls.  Between successful calls
\* the returned byte sequences, CRLF put back after each line, are the
\* consumed prefix of the source, the buffer holds the bytes delivered and
\* not yet consumed, and read_n(k) returned exactly k bytes.
C14_LeftoverPreserved ==
  (r_call = NoCall /\ r_err = "none") =>
    /\ Len(r_buf) <= r_pos
    /\ Rebuilt(r_ret) = Take(r_src, r_pos - Len(r_buf))
    /\ r_buf = SubSeq(r_src, r_pos - Len(r_buf) + 1, r_pos)
    /\ \A i \in DOMAIN r_ret :
         r_ret[i].op = "read_n" => Len(r_ret[i].bytes) = r_ret[i].n

\* A read_line, then a read_n(1) that was served from the bytes the buffer
\* held and left some of them for the next call.
C14_Witness ==
  /\ r_call = NoCall /\ r_err = "none"
  /\ Len(r_ret) = 2
  /\ r_ret[1].op = "read_line" /\ r_ret[2].op = "read_n" /\ r_ret[2].n = 1
  /\ r_buf # <<>>

\* The line read_line is to return from offset start of the source: the
\* bytes before the first CR-LF pair.
LineRight(e) ==
  /\ FindCRLF(Drop(r_src, e.start)) >= 0
  /\ e.bytes = Take(Drop(r_src, e.start), FindCRLF(Drop(r_src, e.start)))

\* C15: read_line returns the bytes before the first CR-LF pair of the unread
\* stream, whatever the fragmentation (a CR not followed by LF stays in the
\* line, a CR-LF pair split over two reads ends the line), and when the
\* source ends before a terminator the call fails with the EOF error and
\* returns no line.
C15_ReadLine ==
  [][ /\ \A i \in DOMAIN r_ret' :
           r_ret'[i].op = "read_line" => LineRight(r_ret'[i])
      /\ (r_call.op = "read_line" /\ r_pos' = r_pos) =>
           (r_err' = "UnexpectedEof" /\ r_ret' = r_ret /\ r_call' = NoCall) ]_vars

\* A line with a CR inside was returned after more than one read of the
\* source.
C15_Witness ==
  \E i \in DOMAIN r_ret :
    /\ r_ret[i].op = "read_line"
    /\ CR \in Range(r_ret[i].bytes)
    /\ r_err = "none"

(***************************************************************************)
(* The header map under arbitrary calls (message/headers.rs)               *)
(*                                                                         *)
(* h_ref: the reference, a list of [name, value] with the names as first   *)
(* given, looked up by comparing names without regard to letter case.      *)
(* h_hist: [n, kinds, trimmed]: the number of calls, their kinds, and      *)
(* whether every value given to add / set had no whitespace at its ends.   *)
(* h_last: [kind, line, err] of the last call.                             *)
(***************************************************************************)
\* The most calls made on one header map.
MaxOps == 3

\* The names and values given to add, set, remove.
OpNames == { <<"a">>, <<"A">>, <<"a", "b">>, <<"A", "b">> }
OpValues == { <<"x">>, <<SP, "x">>, <<"x", HTAB>>, <<>> }

\* The field lines given to parse: well-formed ones, an empty name, SP
\* before the colon, a non-tchar byte in the name, no colon, a disallowed
\* byte in the value, a colon in the value.
FieldLines ==
  { <<"a", COLON, "x">>, <<"A", COLON, SP, "y", SP>>,
    <<COLON, "x">>, <<COLON, SP, "x">>,
    <<"a", SP, COLON, "x">>, <<"a", "(", COLON, "x">>,
    <<"a", "x">>, <<"a", COLON, "x", FF, "y">>,
    <<"a", "b", COLON, "x", COLON, "y">> }

\* Names equal without regard to letter case.
EqFold(a, b) ==
  /\ Len(a) = Len(b)
  /\ \A i \in DOMAIN a : ToLowerByte(a[i]) = ToLowerByte(b[i])

RefHas(ref, name) == \E i \in DOMAIN ref : EqFold(ref[i].name, name)

RefGet(ref, name) ==
  IF RefHas(ref, name)
  THEN Some(ref[CHOOSE i \in DOMAIN ref : EqFold(ref[i].name, name)].value)
  ELSE None

RefSet(ref, name, value) ==
  IF RefHas(ref, name)
  THEN [i \in DOMAIN ref |->
          IF EqFold(ref[i].name, name) THEN [ref[i] EXCEPT !.value = value]
          ELSE ref[i]]
  ELSE Append(ref, [name |-> name, value |-> value])

RefAdd(ref, name, value) ==
  IF RefHas(ref, name)
  THEN RefSet(ref, name, RefGet(ref, name)[1] \o <<COMMA>> \o value)
  ELSE RefSet(ref, name, value)

RefRemove(ref, name) ==
  LET Keep(e) == ~EqFold(e.name, name) IN SelectSeq(ref, Keep)

\* The parse of a header block, line by line, until the blank line, the end
\* of the bytes or an error.
RECURSIVE Headers_parse_all(_, _)
Headers_parse_all(h, bytes) ==
  LET Step(r) ==
        IF r.err # "none" THEN [err |-> r.err, headers |-> r.headers]
        ELSE IF r.n = 0 \/ r.n = Len(CRLF) THEN [err |-> "none", headers |-> r.headers]
        ELSE Headers_parse_all(r.headers, Drop(bytes, r.n))
  IN Step(Headers_parse(h, bytes))

HeadersInit ==
  /\ h_map = Headers_new
  /\ h_ref = <<>>
  /\ h_hist = [n |-> 0, kinds |-> {}, trimmed |-> TRUE]
  /\ h_last = [kind |-> "none", line |-> <<>>, err |-> "none"]
  /\ h_out = None
  /\ ParserOff /\ ServerOff /\ FramingOff /\ PolicyOff /\ ListenerOff /\ ReaderOff /\ WriteOff /\ StartOff /\ PoolOff

\* The history after a call of the given kind with the given value.
Called(kind, value) ==
  [n |-> h_hist.n + 1, kinds |-> h_hist.kinds \cup {kind},
   trimmed |-> h_hist.trimmed /\ TrimAscii(value) = value]

\* headers.add(name, value)
HAdd ==
  /\ h_hist.n < MaxOps /\ h_out = None
  /\ \E name \in OpNames, value \in OpValues :
       /\ h_map' = Headers_add(h_map, name, value)
       /\ h_ref' = RefAdd(h_ref, name, value)
       /\ h_hist' = Called("add", value)
       /\ h_last' = [kind |-> "add", line |-> <<>>, err |-> "none"]
  /\ UNCHANGED <<otherThanHeader, h_out>>

\* headers.set(name, value)
HSet ==
  /\ h_hist.n < MaxOps /\ h_out = None
  /\ \E name \in OpNames, value \in OpValues :
       /\ h_map' = Headers_set(h_map, name, value)
       /\ h_ref' = RefSet(h_ref, name, value)
       /\ h_hist' = Called("set", value)
       /\ h_last' = [kind |-> "set", line |-> <<>>, err |-> "none"]
  /\ UNCHANGED <<otherThanHeader, h_out>>

\* headers.remove(name)
HRemove ==
  /\ h_hist.n < MaxOps /\ h_out = None
  /\ \E name \in OpNames :
       /\ h_map' = Headers_remove(h_map, name)
       /\ h_ref' = RefRemove(h_ref, name)
       /\ h_hist' = Called("remove", <<>>)
       /\ h_last' = [kind |-> "remove", line |-> <<>>, err |-> "none"]
  /\ UNCHANGED <<otherThanHeader, h_out>>

\* headers.parse(line CRLF)
HParse ==
  /\ h_hist.n < MaxOps /\ h_out = None
  /\ \E line \in FieldLines :
       LET Parsed(r) ==
             /\ h_map' = r.headers
             /\ h_hist' = Called("parse", <<>>)
             /\ h_last' = [kind |-> "parse", line |-> line, err |-> r.err]
       IN Parsed(Headers_parse(h_map, line \o CRLF))
  /\ UNCHANGED <<otherThanHeader, h_ref, h_out>>

\* headers.write_to(&mut buf), then the bytes written parsed into a new map.
HRoundTrip ==
  /\ h_out = None
  /\ h_out' = Some(Headers_parse_all(Headers_new, Headers_write_to(h_map)))
  /\ UNCHANGED <<otherThanHeader, h_map, h_ref, h_hist, h_last>>

HeadersNext == HAdd \/ HSet \/ HRemove \/ HParse \/ HRoundTrip

SpecHeaders == HeadersInit /\ [][HeadersNext]_vars

\* C16: after any sequence of add, set and remove calls with names in any
\* letter case, get(n) returns for every case variant of n what the
\* reference holds (add on an existing name joins with a comma, set
\* overwrites, remove deletes), and no two names in the map differ only in
\* letter case.
C16_CaseInsensitiveMap ==
  (h_hist.kinds \subseteq {"add", "set", "remove"}) =>
    /\ \A n \in OpNames : Headers_get(h_map, n) = RefGet(h_ref, n)
    /\ \A k1, k2 \in DOMAIN h_map : EqFold(k1, k2) => k1 = k2

\* Names in two letter cases were given to add and set, and the map holds a
\* joined value.
C16_Witness ==
  /\ h_hist.kinds = {"add", "set"}
  /\ h_hist.n = MaxOps
  /\ Headers_get(h_map, <<"A">>) = Some(<<"x", COMMA, "x">>)
  /\ \E i \in DOMAIN h_ref : h_ref[i].name = <<"A">>

\* The name part of a field line: the bytes before the first colon.
NamePart(line) ==
  Take(line, SetMin({i \in DOMAIN line : line[i] = COLON} \cup {Len(line) + 1}) - 1)

\* The tchar bytes of the model.
TChars ==
  Range(UpperChars) \cup Range(LowerChars) \cup Range(DigitChars) \cup Range(TCharOther)

\* C17: after any sequence of field-line parses every name in the map is
\* not empty and made of tchar bytes, every value is made of field-value
\* bytes, and a field line whose name part is empty or holds a non-tchar
\* byte is rejected.
C17_StoredFieldsValid ==
  /\ (h_hist.kinds \subseteq {"parse"}) =>
       \A k \in DOMAIN h_map :
         /\ k # <<>>
         /\ Range(k) \subseteq TChars
         /\ Range(h_map[k]) \cap {CR, LF, FF} = {}
  /\ (h_last.kind = "parse"
      /\ (NamePart(h_last.line) = <<>> \/ ~(Range(NamePart(h_last.line)) \subseteq TChars))) =>
       h_last.err # "none"

\* C18 (as stated): a map built by set calls with valid names and valid
\* values is equal to the map parsed back from its serialization.
C18_RoundTripAnyValue ==
  (h_out # None /\ h_hist.kinds \subseteq {"set"}) =>
    (h_out[1].err = "none" /\ h_out[1].headers = h_map)

\* C18 (amended): a map built by set calls with valid names and valid values
\* that neither begin nor end with whitespace is equal to the map parsed
\* back from its serialization.
C18_RoundTripTrimmedValues ==
  (h_out # None /\ h_hist.kinds \subseteq {"set"} /\ h_hist.trimmed) =>
    (h_out[1].err = "none" /\ h_out[1].headers = h_map)

\* A map of two fields built by set calls was written and parsed back.
C18_Witness ==
  /\ h_out # None /\ h_hist.kinds = {"set"} /\ h_hist.trimmed
  /\ Cardinality(DOMAIN h_map) = 2
  /\ h_out[1].headers = h_map

(***************************************************************************)
(* Serialization of responses (message/response.rs, Response::write_to)    *)
(***************************************************************************)
\* The header maps tried: empty, one field, a stale Content-Length, both.
WriteHeaders ==
  { Headers_new,
    Headers_set(Headers_new, <<"a">>, <<"x">>),
    Headers_set(Headers_new, Txt_ContentLength, <<"9">>),
    Headers_set(Headers_set(Headers_new, <<"a">>, <<"x">>), Txt_ContentLength, <<"9">>),
    Headers_new_with_default }

\* The bodies tried: empty, one byte, a CRLF, text with a blank line.
WriteBodies ==
  { <<>>, <<"A">>, CRLF, <<"A">> \o CRLF \o CRLF \o <<"B">> }

WriteInit ==
  /\ \E code \in {StatusCodes[i].code : i \in DOMAIN StatusCodes},
        h \in WriteHeaders, body \in WriteBodies :
       w_resp = [status_line |-> StatusLine_new(code), headers |-> h, body |-> body]
  /\ w_out = None
  /\ ParserOff /\ ServerOff /\ FramingOff /\ PolicyOff /\ ListenerOff /\ ReaderOff /\ HeadersOff /\ StartOff /\ PoolOff

\* response.write_to(&mut w): the bytes written, and the headers as write_to
\* leaves them.
WWrite ==
  /\ w_out = None
  /\ w_out' = Some(Response_write_to(w_resp))
  /\ w_resp' = [w_resp EXCEPT !.headers = Response_write_headers(w_resp)]
  /\ UNCHANGED otherThanWrite

WriteNext == WWrite

SpecWrite == WriteInit /\ [][WriteNext]_vars

\* The bytes written before the body.
BeforeBody == Take(w_out[1], Len(w_out[1]) - Len(w_resp.body))

\* The lines of a byte string, each without its CRLF.
RECURSIVE LinesOf(_)
LinesOf(bytes) ==
  IF FindCRLF(bytes) < 0 THEN <<>>
  ELSE <<Take(bytes, FindCRLF(bytes))>> \o LinesOf(Drop(bytes, FindCRLF(bytes) + 2))

\* C19: every serialized response has the empty line that ends the header
\* block between the start line / header fields and the body, also when the
\* header map is empty: a 200 response with no headers and no body is
\* written as HTTP/1.1 200 Ok CRLF CRLF.
C19_HeaderBlockTerminated ==
  w_out # None =>
    /\ Len(BeforeBody) >= 4
    /\ SubSeq(BeforeBody, Len(BeforeBody) - 3, Len(BeforeBody)) = CRLF \o CRLF
    /\ (w_resp = Response_new("Ok")) =>
         w_out[1] = Txt_HTTP \o <<SLASH, "1", ".", "1", SP, "2", "0", "0", SP, "O", "k">>
                    \o CRLF \o CRLF

\* The Content-Length lines among the lines written before the body.
ContentLengthLines ==
  LET IsCL(line) == EqFold(NamePart(line), Txt_ContentLength)
  IN SelectSeq(LinesOf(BeforeBody), IsCL)

\* C20: when a response with a non-empty body is serialized its
\* Content-Length is set to the byte length of the body, whatever it was
\* before, and the body follows the header block unchanged.
C20_ContentLengthSet ==
  (w_out # None /\ w_resp.body # <<>>) =>
    /\ Headers_get(w_resp.headers, Txt_ContentLength) = Some(DecString(Len(w_resp.body)))
    /\ ContentLengthLines
         = << ToLowercase(Txt_ContentLength) \o <<COLON, SP>> \o DecString(Len(w_resp.body)) >>
    /\ SubSeq(BeforeBody, Len(BeforeBody) - 3, Len(BeforeBody)) = CRLF \o CRLF
    /\ Drop(w_out[1], Len(BeforeBody)) = w_resp.body

\* A response with a header field and a body of six bytes, one of its
\* lines empty, was written.
C20_Witness ==
  /\ w_out # None
  /\ Len(w_resp.body) = 6
  /\ Len(ContentLengthLines) = 1
  /\ Headers_get(w_resp.headers, <<"a">>) = Some(<<"x">>)

(***************************************************************************)
(* Start-line codecs (message/status_line.rs, message/request_line.rs)     *)
(***************************************************************************)
\* The versions HttpVersion::from_bytes knows.
RecognizedVersions == { <<1, 0>>, <<1, 1>>, <<2, 0>>, <<3, 0>> }

\* Texts tried in the place of the HTTP-version.
VersionTexts ==
  { Txt_HTTP \o <<SLASH>> \o HttpVersion_fmt(v) : v \in RecognizedVersions }
  \cup { Txt_HTTP \o <<SLASH, "9", ".", "9">>, Txt_HTTP \o <<SLASH, "1">>,
         <<"H", "T", "P", SLASH, "1", ".", "1">>,
         Txt_HTTP \o <<SLASH, "1", ".", "1", SLASH, "2">> }

\* Texts tried in the place of the status code.
CodeTexts ==
  { StatusCodes[i].digits : i \in DOMAIN StatusCodes } \cup { <<"9", "9", "9">> }

\* What follows the status code: nothing, or SP and a reason phrase.
ReasonTails ==
  { <<>>, <<SP>>, <<SP, "X">>, <<SP, SP, "X">> }
  \cup { <<SP>> \o StatusCodes[i].reason : i \in DOMAIN StatusCodes }

StatusLineInputs ==
  { v \o <<SP>> \o c \o r : v \in VersionTexts, c \in CodeTexts, r \in ReasonTails }

\* Texts tried in the place of the method.
MethodTexts ==
  { Methods[i].text : i \in DOMAIN Methods } \cup { <<"g", "e", "t">>, <<"F", "O", "O">> }

TargetTexts == { <<>>, <<SLASH>>, <<SLASH, "a">> }

\* Separators tried: the single SP, and two consecutive SPs.
Separators == { <<SP>>, <<SP, SP>> }

RequestLineInputs ==
  { m \o s1 \o t \o s2 \o v :
      m \in MethodTexts, s1 \in Separators, t \in TargetTexts,
      s2 \in Separators, v \in VersionTexts }
  \cup { m \o <<SP>> \o t : m \in MethodTexts, t \in TargetTexts }

StartInit ==
  /\ \/ t_kind = "status" /\ t_in \in StatusLineInputs
     \/ t_kind = "request" /\ t_in \in RequestLineInputs
  /\ t_out = None
  /\ ParserOff /\ ServerOff /\ FramingOff /\ PolicyOff /\ ListenerOff /\ ReaderOff /\ HeadersOff /\ WriteOff /\ PoolOff

\* StatusLine::from_line(line)
TStatus ==
  /\ t_kind = "status" /\ t_out = None
  /\ t_out' = Some(StatusLine_from_line(t_in))
  /\ UNCHANGED <<t_kind, t_in>>
  /\ UNCHANGED otherThanStart

\* RequestLine::parse(bytes) on the line followed by its CRLF
TRequest ==
  /\ t_kind = "request" /\ t_out = None
  /\ t_out' = Some(RequestLine_parse(t_in \o CRLF))
  /\ UNCHANGED <<t_kind, t_in>>
  /\ UNCHANGED otherThanStart

StartNext == TStatus \/ TRequest

SpecStartLine == StartInit /\ [][StartNext]_vars

\* The line is head, or head SP and a remainder that does not begin with SP.
HeadThenReason(head, line) ==
  \/ line = head
  \/ /\ Len(line) > Len(head)
     /\ Take(line, Len(head) + 1) = head \o <<SP>>
     /\ Len(line) > Len(head) + 1 => line[Len(head) + 2] # SP

\* C21: for every status code (200, 400, 404, 405, 500) the line that the
\* status-line writer produces, without its CRLF, parses successfully to the
\* same version and code; the reason phrase may be absent or any printable
\* remainder, reason phrases with spaces such as Not Found included.
C21_StatusLineRoundTrip ==
  (t_kind = "status" /\ t_out # None) =>
    \A i \in DOMAIN StatusCodes, v \in RecognizedVersions :
      LET sl == [version |-> v, status_code |-> StatusCodes[i].code]
          written == StatusLine_write_to(sl)
          head == Txt_HTTP \o <<SLASH>> \o HttpVersion_fmt(v) \o <<SP>>
                  \o StatusCodes[i].digits
      IN (t_in = Take(written, Len(written) - Len(CRLF)) \/ HeadThenReason(head, t_in))
           => t_out[1] = [err |-> "none", line |-> sl]

\* The line has two consecutive SPs.
HasDoubleSP(line) ==
  \E i \in 1 .. Len(line) - 1 : line[i] = SP /\ line[i + 1] = SP

\* The line is exactly three non-empty tokens separated by single SPs.
ThreeTokens(line) ==
  /\ Len(Split(line, SP)) = 3
  /\ \A i \in 1 .. 3 : Split(line, SP)[i] # <<>>

\* C22: request-line parsing accepts a line only if it is exactly three
\* tokens separated by single SP whose first token is one of the eight method
\* literals; every line with two consecutive SPs, with no version, or with an
\* unrecognized method fails with MalformedRequestLine.
C22_RequestLineShape ==
  (t_kind = "request" /\ t_out # None) =>
    /\ t_out[1].some =>
         ThreeTokens(t_in) /\ Method_parse(Split(t_in, SP)[1]) # None
    /\ ( \/ HasDoubleSP(t_in)
         \/ Len(Split(t_in, SP)) < 3
         \/ Method_parse(Split(t_in, SP)[1]) = None )
         => t_out[1].err = "MalformedRequestLine"

\* C23: when the third token is HTTP/ followed by a text that is not a
\* recognized version (1.0, 1.1, 2.0, 3.0), parsing fails with
\* InvalidHttpVersion and no request line is produced.
C23_UnknownVersionRejected ==
  (t_kind = "request" /\ t_out # None /\ ThreeTokens(t_in)
     /\ Method_parse(Split(t_in, SP)[1]) # None) =>
    LET token == Split(t_in, SP)[3]
    IN (Len(token) > 5 /\ Take(token, 5) = Txt_HTTP \o <<SLASH>>
          /\ HttpVersion_from_bytes(Drop(token, 5)) = None)
         => /\ t_out[1].err \in {"InvalidHttpVersion", "InvalidHTTPVersion"}
            /\ ~t_out[1].some

(***************************************************************************)
(* The body phase of request_from_reader / response_from_reader on raw     *)
(* payloads: Content-Length values as received, chunked codings well- and  *)
(* ill-formed, every fragmentation.                                        *)
(***************************************************************************)
\* The header blocks tried for a length-delimited payload.
LengthFields ==
  { <<>>, FieldLine(Txt_ContentLength, <<"0">>), FieldLine(Txt_ContentLength, <<"2">>),
    FieldLine(Txt_ContentLength, <<"2", COMMA, SP, "2">>) }

\* The payloads sent after them.
LengthPayloads == { <<>>, <<"A", "B">> }

\* An ill-formed chunked coding: the size line, then what follows it.
Chunk(size, rest) == size \o CRLF \o rest

LastChunk == <<"0">> \o CRLF \o CRLF

\* Chunked payloads: well-formed codings of AB, then codings whose chunk data
\* is not followed by CRLF, then codings whose chunk-size line is not a
\* hexadecimal number, then codings whose chunk size is usize::MAX (all
\* hexadecimal f), one less, and one more.
ChunkedPayloads ==
  { EncodeChunks(<<"A", "B">>, <<2>>), EncodeChunks(<<"A", "B">>, <<1, 1>>),
    EncodeChunks(<<>>, <<>>),
    Chunk(<<"0", "2">>, <<"A", "B">> \o CRLF \o LastChunk),
    Chunk(<<"2">>, <<"A", "B", "C">> \o CRLF \o LastChunk),
    Chunk(<<"1">>, <<"A", "B">> \o CRLF \o LastChunk),
    Chunk(<<"2">>, <<"A">> \o CRLF \o <<"X">> \o CRLF \o LastChunk),
    Chunk(<<"1">>, <<"A">> \o LastChunk),
    Chunk(<<"g">>, <<"A">> \o CRLF \o LastChunk),
    Chunk(<<>>, LastChunk),
    Chunk(<<"2", ";", "a">>, <<"A", "B">> \o CRLF \o LastChunk),
    Chunk(<<"-", "1">>, <<"A">> \o CRLF \o LastChunk),
    Chunk(<<SP, "1">>, <<"A">> \o CRLF \o LastChunk),
    Chunk(HexString(UsizeMax), <<"A", "B">> \o CRLF \o LastChunk),
    Chunk(HexString(UsizeMax - 1), <<"A", "B">> \o CRLF \o LastChunk),
    Chunk(HexString(UsizeMax + 1), <<"A", "B">> \o CRLF \o LastChunk) }

\* A message given by its header block and its payload bytes as sent.
RawMessages ==
  { [kind |-> k, framing |-> "raw", fields |-> f, body |-> b, chunks |-> <<>>] :
      k \in {"request", "response"}, f \in LengthFields, b \in LengthPayloads }
  \cup
  { [kind |-> k, framing |-> "raw",
     fields |-> FieldLine(Txt_TransferEncoding, Txt_chunked), body |-> b,
     chunks |-> <<>>] :
      k \in {"request", "response"}, b \in ChunkedPayloads }

RawEncode(m) ==
  (IF m.kind = "request" THEN RequestLine_write_to(MessageLine(m))
   ELSE StatusLine_write_to(MessageLine(m)))
  \o m.fields \o CRLF \o m.body

BodyInit ==
  /\ p_msg \in RawMessages
  /\ p_wire = RawEncode(p_msg)
  /\ p_pos = 0
  /\ p_buf = <<>>
  /\ p_ps = IF p_msg.kind = "request" THEN RequestParser_new ELSE ResponseParser_new
  /\ p_result = "running"
  /\ p_eof = FALSE
  /\ ServerOff /\ FramingOff /\ PolicyOff /\ ListenerOff /\ ReaderOff /\ HeadersOff /\ WriteOff /\ StartOff /\ PoolOff

SpecBody == BodyInit /\ [][ParserNext]_vars

\* The message was sent with Transfer-Encoding: chunked.
SentChunked == p_msg.fields = FieldLine(Txt_TransferEncoding, Txt_chunked)

\* C24: after body parsing has completed successfully the header map has no
\* Content-Length, or its Content-Length value is the byte length of the
\* buffered body; on the chunked path Content-Length is the decoded length
\* and Transfer-Encoding is absent.
C24_ContentLengthIsBodyLength ==
  p_result = "ok" =>
    /\ \/ Headers_get(p_ps.headers, Txt_ContentLength) = None
       \/ ParseUsize(Headers_get(p_ps.headers, Txt_ContentLength)[1], 10)
            = Len(p_ps.body)
    /\ SentChunked =>
         /\ Headers_get(p_ps.headers, Txt_ContentLength) = Some(DecString(Len(p_ps.body)))
         /\ Headers_get(p_ps.headers, Txt_TransferEncoding) = None

\* The line is one or more hexadecimal digits.
IsHex(line) == line # <<>> /\ \A i \in DOMAIN line : ToDigit(line[i], 16) >= 0

\* What the chunked grammar says of the bytes: "ok" for a coding that ends
\* with the last chunk, "badsize" when a chunk-size line is not hexadecimal,
\* "badend" when the k + 2 bytes after a size line k do not end with CRLF,
\* "short" when the bytes end before that can be told.
RECURSIVE ChunkedVerdict(_)
ChunkedVerdict(bytes) ==
  IF FindCRLF(bytes) < 0 THEN "short"
  ELSE IF ~IsHex(Take(bytes, FindCRLF(bytes))) THEN "badsize"
  ELSE LET k == DigitsValue(Take(bytes, FindCRLF(bytes)), 16)
           after == Drop(bytes, FindCRLF(bytes) + 2)
       IN IF k = 0 THEN "ok"
          ELSE IF Len(after) < k + 2 THEN "short"
          ELSE IF SubSeq(after, k + 1, k + 2) # CRLF THEN "badend"
          ELSE ChunkedVerdict(Drop(after, k + 2))

\* C25: in chunked framing, when the k bytes of a chunk of declared size k
\* are not immediately followed by CR LF (size 2 with ABC, say), decoding
\* fails with MalformedChunkedBody whatever the fragmentation: it does not
\* succeed with a body and is not left waiting once the input is delivered.
C25_ChunkDataNotTerminated ==
  (SentChunked /\ ChunkedVerdict(p_msg.body) = "badend"
     /\ (p_pos = Len(p_wire) \/ ParserReturned)) =>
    p_result = "MalformedChunkedBody"

\* C26: in the Size state a chunk-size line that is not a hexadecimal
\* non-negative integer makes decoding fail with MalformedChunkedSize, in the
\* request parser and in the response parser alike.
C26_ChunkSizeNotHex ==
  (SentChunked /\ ChunkedVerdict(p_msg.body) = "badsize"
     /\ (p_pos = Len(p_wire) \/ ParserReturned)) =>
    p_result = "MalformedChunkedSize"


\* The tokens of a Content-Length value: split on the comma, each trimmed.
LengthTokens(value) ==
  [i \in DOMAIN Split(value, COMMA) |-> TrimAscii(Split(value, COMMA)[i])]

\* C27: Content-Length resolution.  A value that parses as a non-negative
\* integer gives length framing with that size; otherwise the value is split
\* on the comma and each token trimmed, and when all tokens are identical and
\* numeric the common value is the size; on any deviation between the tokens,
\* or a non-numeric token, resolution fails with InvalidContentLength.
C27_ContentLengthResolution ==
  (f_result \notin {"off", "unset"}
     /\ Headers_get(f_headers, Txt_TransferEncoding) = None
     /\ Headers_get(f_headers, Txt_ContentLength) # None) =>
    LET value == Headers_get(f_headers, Txt_ContentLength)[1]
        tokens == LengthTokens(value)
    IN IF ParseUsize(value, 10) >= 0
       THEN f_result = "Ok" /\ f_bp.encoding = Some(Nothing(ParseUsize(value, 10)))
       ELSE IF (\A i \in DOMAIN tokens : tokens[i] = tokens[1])
               /\ ParseUsize(tokens[1], 10) >= 0
       THEN f_result = "Ok" /\ f_bp.encoding = Some(Nothing(ParseUsize(tokens[1], 10)))
       ELSE f_result = "InvalidContentLength"


\* The request read so far has neither framing field.
NoFramingFields ==
  /\ Headers_get(s_req.headers, Txt_TransferEncoding) = None
  /\ Headers_get(s_req.headers, Txt_ContentLength) = None

\* C30: when the header block has neither Transfer-Encoding nor
\* Content-Length, body parsing completes with an empty body in the step
\* that follows the blank line: the request goes to the handler with no read
\* issued on the transport and none left pending, and the bytes buffered
\* after the blank line stay buffered.
C30_NoBodyNoRead ==
  [][ (s_pc = "Framing" /\ NoFramingFields) =>
        /\ s_pc' = "Handler"
        /\ s_req'.body = <<>>
        /\ s_req'.headers = s_req.headers
        /\ s_call' = NoCall
        /\ s_pos' = s_pos
        /\ sr_buf' = sr_buf ]_vars

\* A request without framing fields is at the handler and the peer, having
\* sent all it had, sends nothing more.
C30_Witness ==
  /\ s_pc = "Handler"
  /\ NoFramingFields
  /\ s_req.body = <<>>
  /\ s_pos = Len(s_wire)
  /\ sr_buf = <<>>
  /\ s_log = <<>>

(***************************************************************************)
(* The worker pool (server/threadpool.rs)                                  *)
(*                                                                         *)
(* A worker thread is at "lock" (calling receiver.lock()), at "recv" (it   *)
(* holds the mutex and is in recv()), at "job" (it is in job(); the guard  *)
(* is a temporary of the match scrutinee, so the mutex is held until the   *)
(* match ends) or at "done" (it has left its loop).  Jobs are numbered in  *)
(* the order of the execute calls and every job returns.                   *)
(***************************************************************************)
\* The largest pool built and the most jobs submitted.
MaxWorkers == 2
MaxJobs == 3

\* ThreadPool::new(size): the workers are spawned, the pool keeps the Sender.
PoolInit ==
  /\ \E size \in 0 .. MaxWorkers :
       q_workers = [w \in 1 .. size |-> [pc |-> "lock", job |-> 0]]
  /\ q_sender = TRUE
  /\ q_queue = <<>>
  /\ q_lock = 0
  /\ q_next = 0
  /\ q_runs = <<>>
  /\ q_drop = "live"
  /\ q_join = 0
  /\ q_pending = {}
  /\ ParserOff /\ ServerOff /\ FramingOff /\ PolicyOff /\ ListenerOff /\ ReaderOff /\ HeadersOff /\ WriteOff /\ StartOff

\* pool.execute(f): the job is sent on the channel.
Execute ==
  /\ q_drop = "live"
  /\ q_workers # <<>>
  /\ q_next < MaxJobs
  /\ q_next' = q_next + 1
  /\ q_queue' = Append(q_queue, q_next + 1)
  /\ UNCHANGED <<q_workers, q_sender, q_lock, q_runs, q_drop, q_join, q_pending>>
  /\ UNCHANGED otherThanPool

\* pool.execute(f) on a pool of size 0: no thread holds the Receiver, send
\* fails and the unwrap panics; the job is not sent.
Execute_panic ==
  /\ q_drop = "live"
  /\ q_workers = <<>>
  /\ q_drop' = "panicked"
  /\ q_sender' = FALSE
  /\ UNCHANGED <<q_workers, q_queue, q_lock, q_next, q_runs, q_join, q_pending>>
  /\ UNCHANGED otherThanPool

\* receiver.lock() as it would be if the mutex did not exclude.
Lock_unguarded(w) ==
  /\ q_workers[w].pc = "lock"
  /\ q_lock' = w
  /\ q_workers' = [q_workers EXCEPT ![w].pc = "recv"]
  /\ UNCHANGED <<q_sender, q_queue, q_next, q_runs, q_drop, q_join, q_pending>>
  /\ UNCHANGED otherThanPool

\* receiver.lock().unwrap(): the worker takes the mutex when it is free.
Lock(w) ==
  /\ q_workers[w].pc = "lock"
  /\ q_lock = 0
  /\ q_lock' = w
  /\ q_workers' = [q_workers EXCEPT ![w].pc = "recv"]
  /\ UNCHANGED <<q_sender, q_queue, q_next, q_runs, q_drop, q_join, q_pending>>
  /\ UNCHANGED otherThanPool

\* recv() returns Ok(job): the oldest job leaves the channel and job() is
\* called.
Recv_job(w) ==
  /\ q_workers[w].pc = "recv"
  /\ q_queue # <<>>
  /\ q_queue' = Tail(q_queue)
  /\ q_workers' = [q_workers EXCEPT ![w] = [pc |-> "job", job |-> Head(q_queue)]]
  /\ q_runs' = Append(q_runs, [worker |-> w, job |-> Head(q_queue)])
  /\ UNCHANGED <<q_sender, q_lock, q_next, q_drop, q_join, q_pending>>
  /\ UNCHANGED otherThanPool

\* job() returns; the match ends, the guard is dropped, the loop goes round.
Job_returns(w) ==
  /\ q_workers[w].pc = "job"
  /\ q_workers' = [q_workers EXCEPT ![w] = [pc |-> "lock", job |-> 0]]
  /\ q_lock' = IF q_lock = w THEN 0 ELSE q_lock
  /\ UNCHANGED <<q_sender, q_queue, q_next, q_runs, q_drop, q_join, q_pending>>
  /\ UNCHANGED otherThanPool

\* recv() as it would be if it returned Err as soon as the Sender is dropped,
\* jobs still in the channel or not.
Recv_closed_eager(w) ==
  /\ q_workers[w].pc = "recv"
  /\ ~q_sender
  /\ q_workers' = [q_workers EXCEPT ![w].pc = "done"]
  /\ q_lock' = IF q_lock = w THEN 0 ELSE q_lock
  /\ UNCHANGED <<q_sender, q_queue, q_next, q_runs, q_drop, q_join, q_pending>>
  /\ UNCHANGED otherThanPool

\* recv() returns Err: the channel is empty and the Sender is dropped; the
\* worker breaks out of its loop and the thread ends.
Recv_closed(w) ==
  /\ q_workers[w].pc = "recv"
  /\ q_queue = <<>>
  /\ ~q_sender
  /\ q_workers' = [q_workers EXCEPT ![w].pc = "done"]
  /\ q_lock' = IF q_lock = w THEN 0 ELSE q_lock
  /\ UNCHANGED <<q_sender, q_queue, q_next, q_runs, q_drop, q_join, q_pending>>
  /\ UNCHANGED otherThanPool

\* The jobs sent and not yet returned from.
Unfinished ==
  {q_queue[i] : i \in DOMAIN q_queue}
  \cup {q_workers[w].job : w \in {v \in DOMAIN q_workers : q_workers[v].pc = "job"}}

\* drop(pool): the Sender is taken and dropped, then the workers are joined
\* in order; with no worker to join drop returns at once.
Drop_begin ==
  /\ q_drop = "live"
  /\ q_sender' = FALSE
  /\ q_drop' = IF q_workers = <<>> THEN "dropped" ELSE "joining"
  /\ q_join' = IF q_workers = <<>> THEN 0 ELSE 1
  /\ q_pending' = Unfinished
  /\ UNCHANGED <<q_workers, q_queue, q_lock, q_next, q_runs>>
  /\ UNCHANGED otherThanPool

\* worker.thread.join() returns: the thread has ended.
Join ==
  /\ q_drop = "joining"
  /\ q_workers[q_join].pc = "done"
  /\ IF q_join = Len(q_workers)
     THEN q_drop' = "dropped" /\ q_join' = q_join
     ELSE q_drop' = q_drop /\ q_join' = q_join + 1
  /\ UNCHANGED <<q_workers, q_sender, q_queue, q_lock, q_next, q_runs, q_pending>>
  /\ UNCHANGED otherThanPool

PoolNext ==
  \/ Execute
  \/ Execute_panic
  \/ \E w \in DOMAIN q_workers : Lock(w)
  \/ \E w \in DOMAIN q_workers : Recv_job(w)
  \/ \E w \in DOMAIN q_workers : Job_returns(w)
  \/ \E w \in DOMAIN q_workers : Recv_closed(w)
  \/ Drop_begin
  \/ Join

SpecPool == PoolInit /\ [][PoolNext]_vars

\* The threads are scheduled and every job returns; when the pool is dropped
\* is up to its owner.
SpecPoolFair ==
  /\ SpecPool
  /\ \A w \in 1 .. MaxWorkers :
       /\ WF_vars(w \in DOMAIN q_workers /\ Lock(w))
       /\ WF_vars(w \in DOMAIN q_workers /\ Recv_job(w))
       /\ WF_vars(w \in DOMAIN q_workers /\ Job_returns(w))
       /\ WF_vars(w \in DOMAIN q_workers /\ Recv_closed(w))
  /\ WF_vars(Join)

\* How many times job j was called.
RunsOf(j) == Cardinality({i \in DOMAIN q_runs : q_runs[i].job = j})

ReadFailedOnTransport == s_err \in {"IO(ConnectionAborted)", BodyEof}

\* C31: when connection.read fails because the transport reported EOF,
\* connection-aborted or broken-pipe, the per-connection loop is left without
\* a 500 being written, in whichever phase the failure occurred: start line,
\* header block, Content-Length body or chunked body.
C31_TransportErrorNo500 ==
  ReadFailedOnTransport =>
    /\ s_pc = "Closed"
    /\ \A i \in DOMAIN s_log : s_log[i].ev = "write" => s_log[i].what # "500"


\* The chunked request among the requests that parse.
ChunkedRequest ==
  RequestText(V11, FieldLine(Txt_TransferEncoding, Txt_chunked),
              EncodeChunks(<<CR, LF>>, <<2>>))

\* The peer sends the chunked request first.
ChunkedFirst ==
  /\ Len(s_wire) >= Len(ChunkedRequest)
  /\ Take(s_wire, Len(ChunkedRequest)) = ChunkedRequest

C33_SizeParsedBounded ==
  /\ p_result # "panic"
  /\ (p_result # "off" /\ p_ps.bp.chunked_state.t = "Data") =>
       p_ps.bp.size_parsed <= p_ps.bp.chunked_state.size


(***************************************************************************)
(* What follows a handler's response on the connection                     *)
(***************************************************************************)

\* The writes of a 500 in the log.
Writes500 == {i \in DOMAIN s_log : s_log[i].ev = "write" /\ s_log[i].what = "500"}

\* The event before the i-th is the write of a handler's response.
AfterResponse(i) ==
  i > 1 /\ s_log[i - 1].ev = "write" /\ s_log[i - 1].what = "response"

\* C34 as stated: once a byte of a handler's response has been written, no
\* 500 is written after it on the same connection.
C34_No500AfterResponseBytes ==
  \A i \in Writes500 :
    \A j \in 1..(i - 1) :
      (s_log[j].ev = "write" /\ s_log[j].what = "response") => s_log[j].bytes = <<>>

\* C34, amended: a connection carries at most one 500 and it is the last
\* thing written; a 500 answers the request whose response was written just
\* before it exactly when the write or the flush of that response failed, so
\* a response written and flushed without error is never followed by a 500
\* for the same request (a 500 after it answers a later failed read).
C34_500OnlyAfterFailedWrite ==
  /\ Cardinality(Writes500) <= 1
  /\ \A i \in Writes500 :
       /\ i = Len(s_log)
       /\ s_err = "Write" <=> (AfterResponse(i) /\ ~s_log[i - 1].ok)

\* A handler's response was written in part, the write failed, and a 500 was
\* written after those bytes.
C34_Witness ==
  /\ s_pc = "Closed"
  /\ Len(s_log) >= 3
  /\ s_log[Len(s_log)].what = "500"
  /\ AfterResponse(Len(s_log))
  /\ ~s_log[Len(s_log) - 1].ok
  /\ s_log[Len(s_log) - 1].bytes # <<>>
  /\ s_log[Len(s_log)].bytes # <<>>


(***************************************************************************)
(* The queue lock and the jobs                                             *)
(***************************************************************************)

\* C35: in a pool of two or more workers the queue lock is held for the
\* dequeue only: no worker holds it while it executes a job, so that an idle
\* worker can take the lock and a queued job while another job is executing.
C35_LockNotHeldDuringJob ==
  Len(q_workers) >= 2 =>
    \A w \in DOMAIN q_workers : q_workers[w].pc = "job" => q_lock # w


(***************************************************************************)
(* Termination of the per-connection loop                                  *)
(***************************************************************************)

\* How many whole requests the wire holds, one after the other, from its
\* first byte on.
CompleteRequests(wire) ==
  LET ks == {e[1] : e \in RequestEnds(wire, 0, 0)}
  IN CHOOSE k \in ks : \A j \in ks : j <= k

\* The bytes of the peer not yet consumed by Connection::read: those the
\* transport has not delivered and, between two calls of the reader, those
\* left over in its buffer, which are not looked at again once a read has
\* failed.
Unread(pos, pc, call, buf) ==
  (Len(s_wire) - pos)
  + (IF call = NoCall /\ pc \notin {"InternalError", "Closed"} THEN Len(buf) ELSE 0)

\* Where the loop is between two bytes consumed: the later the position, the
\* smaller the number.
Stage(pc, call) ==
  IF pc = "Closed" THEN 0
  ELSE IF pc = "RequestLine" THEN (IF call = NoCall THEN 2 ELSE 1)
  ELSE IF pc = "InternalError" THEN 3
  ELSE IF pc = "Respond" THEN 4
  ELSE IF pc = "Handler" THEN 5
  ELSE IF pc = "Framing" THEN 8
  ELSE IF call = NoCall THEN 7 ELSE 6

\* A number that every step of the loop makes smaller (Stage is below 9).
Variant(pos, pc, call, buf) ==
  9 * Unread(pos, pc, call, buf) + Stage(pc, call)

\* The loop can take a step: a call of the reader is waiting for the
\* transport, which delivers bytes or reports its end, or the loop is at a
\* position whose step needs nothing from the peer.
CanStep(pc, call) ==
  \/ call # NoCall
  \/ pc \in LinePcs \cup {"Framing", "Handler", "Respond", "InternalError"}

\* C36: the per-connection loop terminates.  The byte stream of the peer
\* being finite and every handler call returning, every step of
\* handle_connection brings the loop nearer to its end (a number that is
\* never negative gets smaller), the loop can always take a step until it is
\* left, and the handler has been called at most once for each whole request
\* of the stream.
C36_LoopTerminates ==
  [][ /\ Variant(s_pos', s_pc', s_call', sr_buf') < Variant(s_pos, s_pc, s_call, sr_buf)
      /\ Variant(s_pos', s_pc', s_call', sr_buf') >= 0
      /\ s_pc' # "Closed" => CanStep(s_pc', s_call')
      /\ HandledCount(s_log') <= CompleteRequests(s_wire) ]_vars

\* The loop was left at the end of a stream of two whole requests, each of
\* them handed to the handler once.
C36_Witness ==
  /\ s_pc = "Closed"
  /\ s_pos = Len(s_wire)
  /\ CompleteRequests(s_wire) = 2
  /\ HandledCount(s_log) = 2
  /\ s_err = "IO(ConnectionAborted)"


(***************************************************************************)
(* Content-Length of serialized responses                                  *)
(***************************************************************************)

\* C37: in every serialized response a Content-Length line of the output
\* gives the number of body bytes written after the header block, also when
\* the body is empty and the header map already carried a Content-Length.
C37_WrittenContentLengthIsBodyLength ==
  w_out # None =>
    \A i \in DOMAIN ContentLengthLines :
      ContentLengthLines[i]
        = ToLowercase(Txt_ContentLength) \o <<COLON, SP>> \o DecString(Len(w_resp.body))


(***************************************************************************)
(* The states of the parser objects across parse calls                     *)
(***************************************************************************)

\* The states of a parser object in the order parse goes through them.
StateOrder(state) ==
  IF state = "StartLine" THEN 0
  ELSE IF state = "Headers" THEN 1
  ELSE IF state = "Body" THEN 2
  ELSE 3

\* The bytes handed to parse in the turn of the from_reader loop in which the
\* reader delivers the bytes of the wire up to pos.
Passed(pos) == p_buf \o SubSeq(p_wire, p_pos + 1, pos)

\* One parse call with its result r: the state of the parser has not gone
\* backward, neither in what the call returns nor in what the parser keeps;
\* the assertion of the start-line state has not failed (a failed assertion
\* is a panic in the start-line state); and the count returned is at most the
\* number of bytes passed in.
ParseCallAdvances(bytes, r) ==
  /\ StateOrder(r.ps.state) >= StateOrder(p_ps.state)
  /\ StateOrder(p_ps'.state) >= StateOrder(p_ps.state)
  /\ ~(r.err = "panic" /\ r.ps.state = "StartLine")
  /\ r.n <= Len(bytes)

\* C38: across the parse calls of a parser object the state only goes forward
\* (start line, Headers, Body, Done), so the assertion read == 0 of the
\* start-line state never fails, and the consumed count parse returns never
\* exceeds the number of bytes it was passed.
C38_ParserStateForward ==
  [][ p_pos' > p_pos =>
        ParseCallAdvances(Passed(p_pos'), Parser_parse(p_msg.kind, p_ps, Passed(p_pos'))) ]_vars

\* A parse call has returned in the Body state, inside a chunk, with bytes it
\* was passed left unconsumed.
C38_Witness ==
  /\ p_result = "running"
  /\ p_ps.state = "Body"
  /\ p_ps.bp.chunked_state.t = "Data"
  /\ p_buf # <<>>


(***************************************************************************)
(* Chunk sizes at the top of the machine word                              *)
(***************************************************************************)

\* The first chunk-size line of the payload sent.
FirstSizeLine == Take(p_msg.body, FindCRLF(p_msg.body))

\* The message was sent chunked with a first chunk size of usize::MAX or one
\* less.
SizeNearMax ==
  /\ SentChunked
  /\ FindCRLF(p_msg.body) >= 0
  /\ ParseUsize(FirstSizeLine, 16) >= UsizeMax - 1

\* C39: a chunk-size line whose value is at or next to usize::MAX (all
\* hexadecimal f) does not make the index computations size + 1, size + 2 and
\* size - size_parsed + 1 overflow: the decoder returns an error or waits
\* for more bytes, it does not panic.
C39_NoOverflowNearMax == SizeNearMax => p_result # "panic"

====
